---- MODULE Spec2Model ----
(***************************************************************************)
(* The transcription request pipeline of gemini-audio-transcriber:         *)
(* transcribeAndDiarize (src/api/gemini.ts, kept in agents.ts) with its    *)
(* retry loop, and uploadAudioFileViaFilesApi (src/api/files.ts), the      *)
(* Files API stager with its polling loop.                                 *)
(*                                                                         *)
(* Strings are sequences of tokens.  Decimal digits are one token each, so *)
(* that String.includes("429") is a real search; words that no signature   *)
(* can straddle are kept whole.  An optional value is <<>> (undefined) or  *)
(* <<v>>.                                                                  *)
(***************************************************************************)
EXTENDS Integers, Sequences, FiniteSets, TLC

VARIABLES
    apiKeySet,        \* process.env.GOOGLE_API_KEY is set
    ext,              \* path.extname(filePath)
    diskSize,         \* size of the audio file on disk (fs.stat)
    pc,               \* position of transcribeAndDiarize
    attempt,          \* loop variable of the retry loop
    useInlineUpload,  \* const useInlineUpload
    mimeType,         \* const mimeType
    fileUri,          \* let fileUri: string | undefined
    lastError,        \* let lastError: unknown
    thrown,           \* the error transcribeAndDiarize rejected with
    result,           \* the value transcribeAndDiarize resolved with
    sPc,              \* position of uploadAudioFileViaFilesApi
    sAttempt,         \* loop variable of the polling loop
    file,             \* let file (the last file metadata received)
    opId,             \* history: number of stager invocations of this call
    stagings,         \* history: outcome of every finished stager invocation
    uploads,          \* history: fileManager.uploadFile calls of the current invocation
    waits,            \* history: wait(pollIntervalMs) calls of the current invocation
    polls,            \* history: fileManager.getFile calls of the current invocation
    sawReady,         \* history: some file metadata of the current invocation was ACTIVE
    sawFailed,        \* history: some file metadata of the current invocation was FAILED
    headSaw,          \* history: what the polling loop head last examined
    genCalls,         \* history: number of model.generateContent calls
    requests,         \* history: the audio part of every generateContent call
    lastResponse,     \* history: the last response generateContent resolved with
    delays,           \* history: the delay(ms) calls, in order
    attemptErrors,    \* history: the error caught on every failed attempt
    pPc,              \* position of saveTranscriptionReport
    formats,          \* args.formats
    s3Config,         \* args.uploads?.s3
    pIndex,           \* position of the for-of loop in formats
    savedFiles,       \* const savedFiles: string[]
    s3UploadedFiles,  \* const s3UploadedFiles: string[]
    logs,             \* the calls made on the logger, in order
    pReturn,          \* the value saveTranscriptionReport resolved with
    pThrown,          \* the error saveTranscriptionReport rejected with
    attempted,        \* history: the formats whose render/write was started
    saveOutcomes,     \* history: how the render/write of every attempted format ended
    uploadCalls,      \* history: the paths passed to s3Uploader.uploadFile
    uploadOutcomes,   \* history: how every s3Uploader.uploadFile call ended
    disk,             \* history: the paths whose write has completed
    transcription,    \* the transcript text handed to buildReportData
    context,          \* the TranscriptionReportContext handed to buildReportData
    costEstimate,     \* what estimateCost returned
    reportData,       \* the ReportData handed to the renderers
    markdown,         \* what buildMarkdownReport returned
    docx,             \* the children of the section writeDocxReport built
    pdf,              \* the drawing calls writePdfReport made on the document
    sessionStorage,   \* const sessionStorage of tools.ts
    calls,            \* the tool calls made so far, each with its position, reply and arguments
    successes         \* history: what every successful transcribe_audio call obtained, in order

envVars == <<apiKeySet, ext, diskSize>>
orchVars == <<pc, attempt, useInlineUpload, mimeType, fileUri, lastError, thrown, result>>
stagerVars == <<sPc, sAttempt, file>>
stagerHist == <<opId, stagings, uploads, waits, polls, sawReady, sawFailed, headSaw>>
orchHist == <<genCalls, requests, lastResponse, delays, attemptErrors>>
pubVars == <<pPc, formats, s3Config, pIndex, savedFiles, s3UploadedFiles, logs, pReturn, pThrown>>
pubHist == <<attempted, saveOutcomes, uploadCalls, uploadOutcomes, disk>>
buildVars == <<transcription, context, costEstimate>>
renderVars == <<buildVars, reportData, markdown, docx, pdf>>
reportVars == <<pubVars, pubHist, renderVars>>
transcriberVars == <<envVars, orchVars, stagerVars, stagerHist, orchHist>>
toolVars == <<sessionStorage, calls, successes>>
vars == <<transcriberVars, reportVars, toolVars>>

Undefined == <<>>
Some(v) == <<v>>

----------------------------------------------------------------------------
(* Bounds of the model *)

MaxTextLen == 2

----------------------------------------------------------------------------
(* config.ts *)

INLINE_UPLOAD_MAX_BYTES == 15 * 1024 * 1024
MAX_AUDIO_FILE_SIZE == 500 * 1024 * 1024
maxRetries == 3
retryDelayMs == 1000
pollIntervalMs == 2000
maxPollAttempts == 60

MIME_TYPE_MAPPING(e) ==
    CASE e = ".mp3" -> Some("audio/mpeg")
      [] e = ".wav" -> Some("audio/wav")
      [] e = ".flac" -> Some("audio/flac")
      [] e = ".m4a" -> Some("audio/mp4")
      [] e = ".ogg" -> Some("audio/ogg")
      [] OTHER -> Undefined

----------------------------------------------------------------------------
(* Strings *)

DigitChars == <<"0", "1", "2", "3", "4", "5", "6", "7", "8", "9">>

RECURSIVE ToDigits(_)
ToDigits(n) ==
    IF n < 10 THEN <<DigitChars[n + 1]>>
    ELSE ToDigits(n \div 10) \o <<DigitChars[(n % 10) + 1]>>

Range(q) == {q[i] : i \in DOMAIN q}

Includes(s, sub) ==
    \E i \in 0..(Len(s) - Len(sub)) : SubSeq(s, i + 1, i + Len(sub)) = sub

ToLowerCase(e) ==
    CASE e = ".MP3" -> ".mp3"
      [] e = ".OGG" -> ".ogg"
      [] e = ".TXT" -> ".txt"
      [] OTHER -> e

WhiteSpace == {" ", "\n", "\r", "\t"}

RECURSIVE TrimStart(_)
TrimStart(t) ==
    IF t # <<>> /\ Head(t) \in WhiteSpace THEN TrimStart(Tail(t)) ELSE t

RECURSIVE TrimEnd(_)
TrimEnd(t) ==
    IF t # <<>> /\ t[Len(t)] \in WhiteSpace THEN TrimEnd(SubSeq(t, 1, Len(t) - 1)) ELSE t

Trim(t) == TrimEnd(TrimStart(t))

----------------------------------------------------------------------------
(* What the collaborators can answer *)

FileSizes ==
    {1, INLINE_UPLOAD_MAX_BYTES - 1, INLINE_UPLOAD_MAX_BYTES,
     INLINE_UPLOAD_MAX_BYTES + 1, MAX_AUDIO_FILE_SIZE}

Exts == {".mp3", ".OGG", ".txt"}

FileStates == {"STATE_UNSPECIFIED", "PROCESSING", "ACTIVE", "FAILED"}

RemoteUris == {"files/a1", "files/b2"}

\* file.error?.message of a FAILED file
FailReasons ==
    {Undefined, Some(<<"corrupt audio">>), Some(<<"backend ", "rate limit", " exceeded">>)}

RemoteFiles(uris) ==
    {[state |-> s, uri |-> u, error |-> Undefined] :
        s \in FileStates \ {"FAILED"}, u \in uris}
    \cup {[state |-> "FAILED", uri |-> u, error |-> r] : u \in uris, r \in FailReasons}

UploadErrors ==
    {<<"fetch failed: read ", "ECONNRESET">>,
     <<"[", "4", "0", "3", " Forbidden] ", "API key not valid">>}

GetFileErrors ==
    {<<"[", "5", "0", "3", " Service Unavailable]">>,
     <<"[", "4", "0", "4", " Not Found]">>}

ReadFileErrors ==
    {<<"ENOENT", ": no such file or directory">>, <<"read ", "ETIMEDOUT">>}

RateLimitError == <<"[", "4", "2", "9", " Too Many Requests] ", "Resource exhausted">>

GenErrors ==
    {RateLimitError,
     <<"[", "5", "0", "3", " Service Unavailable]">>,
     <<"request to generativelanguage failed: ", "ETIMEDOUT">>,
     <<"[", "4", "0", "0", " Bad Request] ", "Invalid audio">>}

TextChars == {" ", "\n", "a"}

Texts == UNION {[1..n -> TextChars] : n \in 0..MaxTextLen}

Usages ==
    {Undefined,
     Some([promptTokenCount |-> 1200, candidatesTokenCount |-> 300, totalTokenCount |-> 1500])}

\* result.response of generateContent: text() and usageMetadata
Responses ==
    [text : {Undefined} \cup {Some(t) : t \in Texts}, usageMetadata : Usages]

----------------------------------------------------------------------------
(* src/api/gemini.ts: helpers of transcribeAndDiarize *)

\* variant: an unknown extension falls back to a generic mime type
resolveMimeTypeFallback(e) ==
    IF MIME_TYPE_MAPPING(ToLowerCase(e)) = Undefined
    THEN Some("application/octet-stream")
    ELSE MIME_TYPE_MAPPING(ToLowerCase(e))

\* resolveMimeType: the mime type, or <<>> where it throws
resolveMimeType(e) == MIME_TYPE_MAPPING(ToLowerCase(e))

UnsupportedMessage(e) == <<"Unsupported audio file type: ", ToLowerCase(e)>>

ApiKeyMessage == <<"GOOGLE_API_KEY is not set in the .env file.">>

EmptyTranscriptionMessage == <<"API returned empty transcription">>

\* variant: the stager's own "timed out" wording is taken for a timeout signature
isRetryableErrorTimedOut(errorMessage) ==
    \/ Includes(errorMessage, <<"4", "2", "9">>)
    \/ Includes(errorMessage, <<"5", "0", "3">>)
    \/ Includes(errorMessage, <<"ECONNRESET">>)
    \/ Includes(errorMessage, <<"ETIMEDOUT">>)
    \/ Includes(errorMessage, <<"timed out">>)
    \/ Includes(errorMessage, <<"rate limit">>)

isRetryableError(errorMessage) ==
    \/ Includes(errorMessage, <<"4", "2", "9">>)
    \/ Includes(errorMessage, <<"5", "0", "3">>)
    \/ Includes(errorMessage, <<"ECONNRESET">>)
    \/ Includes(errorMessage, <<"ETIMEDOUT">>)
    \/ Includes(errorMessage, <<"rate limit">>)

\* variant: the catch block retries whatever the error
ShouldRetryAny(a, e) == a < maxRetries

\* the condition of the catch block's if
ShouldRetry(a, e) == a < maxRetries /\ isRetryableError(e)

\* variant: a constant delay
DelayMsConstant(a) == retryDelayMs

\* const delayMs = API_CONFIG.retryDelayMs * attempt
DelayMs(a) == retryDelayMs * a

\* variant: only the first error is kept
LastErrorAfterKeepFirst(prev, e) == IF prev = Undefined THEN Some(e) ELSE prev

\* lastError = error
LastErrorAfter(prev, e) == Some(e)

\* the message of the final throw
FailMessage(e) ==
    <<"Failed to transcribe after ">> \o ToDigits(maxRetries) \o <<" attempts: ">> \o e

\* const transcription = response.text() ?? ""
TextOf(response) == IF response.text = Undefined THEN <<>> ELSE response.text[1]

\* variant: the trim is forgotten
IsEmptyTranscriptionNoTrim(t) == t = <<>>

\* !transcription || transcription.trim().length === 0
IsEmptyTranscription(t) == t = <<>> \/ Len(Trim(t)) = 0

\* variant: the boundary size is staged
SelectInlineStrict(size) == size < INLINE_UPLOAD_MAX_BYTES

\* const useInlineUpload = fileStats.size <= INLINE_UPLOAD_MAX_BYTES
SelectInline(size) == size <= INLINE_UPLOAD_MAX_BYTES

\* !useInlineUpload && !fileUri
NeedsStagingEveryAttempt(inline, uri) == ~inline

NeedsStaging(inline, uri) == ~inline /\ uri = Undefined

InlinePart(mime) == <<"inlineData", mime>>
FileDataPart(mime, uri) == <<"fileData", mime, uri>>

----------------------------------------------------------------------------
(* src/api/files.ts: helpers of uploadAudioFileViaFilesApi *)

NoFileMessage == <<"Files API response did not include file metadata.">>

ProcessingFailedMessage(f) ==
    <<"Files API processing failed: ">>
        \o (IF f.error = Undefined THEN <<"unknown failure">> ELSE f.error[1])

\* (pollIntervalMs * maxPollAttempts) / 1000 is a whole number for the configured values
TimedOutMessage(f) ==
    <<"Files API processing ", "timed out", " after ">>
        \o ToDigits((pollIntervalMs * maxPollAttempts) \div 1000)
        \o <<"s (last state: ", f.state, ").">>

\* variant: a FAILED file is not thrown on, the loop goes on waiting
PollDecisionNoThrow(f, k) ==
    IF k < maxPollAttempts
    THEN IF f.state = "ACTIVE" THEN "return" ELSE "wait"
    ELSE "throwTimeout"

\* one evaluation of the loop condition and of the two ifs at the loop head
PollDecision(f, k) ==
    IF k < maxPollAttempts
    THEN IF f.state = "ACTIVE" THEN "return"
         ELSE IF f.state = "FAILED" THEN "throwFailed"
         ELSE "wait"
    ELSE "throwTimeout"

----------------------------------------------------------------------------
(* State after the caller has chosen the file and the process environment *)

TranscriberIdle ==
    /\ pc = "start"
    /\ attempt = 0
    /\ useInlineUpload = FALSE
    /\ mimeType = Undefined
    /\ fileUri = Undefined
    /\ lastError = Undefined
    /\ thrown = Undefined
    /\ result = Undefined
    /\ sPc = "idle"
    /\ sAttempt = 0
    /\ file = Undefined
    /\ opId = 0
    /\ stagings = <<>>
    /\ uploads = 0
    /\ waits = 0
    /\ polls = 0
    /\ sawReady = FALSE
    /\ sawFailed = FALSE
    /\ headSaw = Undefined
    /\ genCalls = 0
    /\ requests = <<>>
    /\ lastResponse = Undefined
    /\ delays = <<>>
    /\ attemptErrors = <<>>

\* the locals and the history of a saveTranscriptionReport call that has not run yet
PublisherFresh ==
    /\ pIndex = 0
    /\ savedFiles = <<>>
    /\ s3UploadedFiles = <<>>
    /\ logs = <<>>
    /\ pReturn = Undefined
    /\ pThrown = Undefined
    /\ attempted = <<>>
    /\ saveOutcomes = <<>>
    /\ uploadCalls = <<>>
    /\ uploadOutcomes = <<>>
    /\ disk = {}

\* saveTranscriptionReport has not been called
PublisherIdle ==
    /\ pPc = "idle"
    /\ formats = <<>>
    /\ s3Config = Undefined
    /\ PublisherFresh

\* no renderer has been called
RendererIdle ==
    /\ transcription = <<>>
    /\ context = Undefined
    /\ costEstimate = Undefined
    /\ reportData = Undefined
    /\ markdown = Undefined
    /\ docx = Undefined
    /\ pdf = Undefined

\* the session storage as tools.ts creates it; no tool has been called
EmptySession ==
    [lastTranscription |-> <<>>, lastUsageMetadata |-> Undefined, lastFilePath |-> <<>>,
     lastModelChoice |-> "", lastSpeakers |-> Undefined]

ToolsIdle ==
    /\ sessionStorage = EmptySession
    /\ calls = <<>>
    /\ successes = <<>>

Init ==
    /\ apiKeySet \in BOOLEAN
    /\ ext \in Exts
    /\ diskSize \in FileSizes
    /\ TranscriberIdle
    /\ ToolsIdle
    /\ PublisherIdle
    /\ RendererIdle

----------------------------------------------------------------------------
(* transcribeAndDiarize *)

\* model.generateContent([prompt, audioFilePart]) is issued
IssueGenerate(part) ==
    /\ genCalls' = genCalls + 1
    /\ requests' = Append(requests, part)
    /\ pc' = "generate"

\* the catch block, and the final throw when the loop is left
Catch(e) ==
    /\ lastError' = LastErrorAfter(lastError, e)
    /\ attemptErrors' = Append(attemptErrors, e)
    /\ IF ShouldRetry(attempt, e)
       THEN /\ delays' = Append(delays, DelayMs(attempt))
            /\ pc' = "delay"
            /\ UNCHANGED thrown
       ELSE /\ pc' = "failed"
            /\ thrown' = Some(FailMessage(lastError'[1]))
            /\ UNCHANGED delays

\* the try block of attempt a, up to its first await
AttemptBody(a, inline, mime, uri) ==
    /\ attempt' = a
    /\ IF NeedsStaging(inline, uri)
       THEN \* uploadAudioFileViaFilesApi is entered and uploadFile is issued
            /\ pc' = "staging"
            /\ sPc' = "uploadFile"
            /\ sAttempt' = 0
            /\ file' = Undefined
            /\ opId' = opId + 1
            /\ uploads' = 1
            /\ waits' = 0
            /\ polls' = 0
            /\ sawReady' = FALSE
            /\ sawFailed' = FALSE
            /\ headSaw' = Undefined
            /\ UNCHANGED <<genCalls, requests>>
       ELSE /\ IF inline
               THEN pc' = "readFile" /\ UNCHANGED <<genCalls, requests>>
               ELSE IssueGenerate(FileDataPart(mime[1], uri[1]))
            /\ UNCHANGED <<stagerVars, opId, uploads, waits, polls, sawReady, sawFailed, headSaw>>

\* lines 190-193: the API key check
Start ==
    /\ pc = "start"
    /\ IF apiKeySet
       THEN pc' = "stat" /\ UNCHANGED thrown
       ELSE pc' = "failed" /\ thrown' = Some(ApiKeyMessage)
    /\ UNCHANGED <<toolVars, reportVars, envVars, attempt, useInlineUpload, mimeType, fileUri, lastError, result,
                   stagerVars, stagerHist, orchHist>>

\* lines 220-232: fs.stat resolves, resolveMimeType, the strategy, the first attempt
StatResolved ==
    /\ pc = "stat"
    /\ IF resolveMimeType(ext) = Undefined
       THEN /\ pc' = "failed"
            /\ thrown' = Some(UnsupportedMessage(ext))
            /\ UNCHANGED <<attempt, useInlineUpload, mimeType, stagerVars, stagerHist,
                           genCalls, requests>>
       ELSE /\ mimeType' = resolveMimeType(ext)
            /\ useInlineUpload' = SelectInline(diskSize)
            /\ AttemptBody(1, useInlineUpload', mimeType', fileUri)
            /\ UNCHANGED <<thrown, stagings>>
    /\ UNCHANGED <<toolVars, reportVars, envVars, fileUri, lastError, result, lastResponse, delays, attemptErrors>>

\* fileToGenerativePart resolves and generateContent is issued
ReadFileResolved ==
    /\ pc = "readFile"
    /\ IssueGenerate(InlinePart(mimeType[1]))
    /\ UNCHANGED <<toolVars, reportVars, envVars, attempt, useInlineUpload, mimeType, fileUri, lastError, thrown,
                   result, stagerVars, stagerHist, lastResponse, delays, attemptErrors>>

\* fs.readFile rejects
ReadFileRejected(e) ==
    /\ pc = "readFile"
    /\ Catch(e)
    /\ UNCHANGED <<toolVars, reportVars, envVars, attempt, useInlineUpload, mimeType, fileUri, result,
                   stagerVars, stagerHist, genCalls, requests, lastResponse>>

\* lines 247-268: generateContent resolves
GenerateResolved(response) ==
    /\ pc = "generate"
    /\ lastResponse' = Some(response)
    /\ IF IsEmptyTranscription(TextOf(response))
       THEN Catch(EmptyTranscriptionMessage) /\ UNCHANGED result
       ELSE /\ pc' = "returned"
            /\ result' = Some([transcription |-> TextOf(response),
                               usageMetadata |-> response.usageMetadata])
            /\ UNCHANGED <<lastError, thrown, delays, attemptErrors>>
    /\ UNCHANGED <<toolVars, reportVars, envVars, attempt, useInlineUpload, mimeType, fileUri,
                   stagerVars, stagerHist, genCalls, requests>>

\* generateContent rejects
GenerateRejected(e) ==
    /\ pc = "generate"
    /\ Catch(e)
    /\ UNCHANGED <<toolVars, reportVars, envVars, attempt, useInlineUpload, mimeType, fileUri, result,
                   stagerVars, stagerHist, genCalls, requests, lastResponse>>

\* lines 276-277 and 225-246: delay(delayMs) resolves, continue, the next attempt
DelayElapsed ==
    /\ pc = "delay"
    /\ AttemptBody(attempt + 1, useInlineUpload, mimeType, fileUri)
    /\ UNCHANGED <<toolVars, reportVars, envVars, useInlineUpload, mimeType, fileUri, lastError, thrown, result,
                   stagings, lastResponse, delays, attemptErrors>>

----------------------------------------------------------------------------
(* uploadAudioFileViaFilesApi, awaited by the try block of transcribeAndDiarize *)

\* the stager throws e: the await in the try block rejects and the catch block runs
StagerThrows(outcome, e) ==
    /\ sPc' = outcome
    /\ stagings' = Append(stagings, outcome)
    /\ Catch(e)
    /\ UNCHANGED <<fileUri, genCalls, requests, waits>>

\* the stager returns uri: fileUri is assigned and generateContent is issued
StagerReturns(uri) ==
    /\ sPc' = "Ready"
    /\ stagings' = Append(stagings, "Ready")
    /\ fileUri' = Some(uri)
    /\ IssueGenerate(FileDataPart(mimeType[1], uri))
    /\ UNCHANGED <<lastError, thrown, delays, attemptErrors, waits>>

\* lines 34-48 (and 52-54): the loop head with file = f and attempt = k
AfterFile(f, k) ==
    /\ file' = Some(f)
    /\ sAttempt' = k
    /\ sawReady' = (sawReady \/ f.state = "ACTIVE")
    /\ sawFailed' = (sawFailed \/ f.state = "FAILED")
    /\ headSaw' = IF k < maxPollAttempts THEN Some(f.state) ELSE headSaw
    /\ CASE PollDecision(f, k) = "return" -> StagerReturns(f.uri)
         [] PollDecision(f, k) = "throwFailed" ->
                StagerThrows("Failed", ProcessingFailedMessage(f))
         [] PollDecision(f, k) = "throwTimeout" ->
                StagerThrows("TimedOut", TimedOutMessage(f))
         [] OTHER ->
                /\ sPc' = "wait"
                /\ waits' = waits + 1
                /\ UNCHANGED <<stagings, fileUri, pc, lastError, thrown, delays,
                               attemptErrors, genCalls, requests>>

\* lines 22-27: uploadFile resolves with file metadata
UploadResolved(f) ==
    /\ pc = "staging" /\ sPc = "uploadFile"
    /\ AfterFile(f, 0)
    /\ UNCHANGED <<toolVars, reportVars, envVars, attempt, useInlineUpload, mimeType, result,
                   opId, uploads, polls, lastResponse>>

\* lines 28-30: uploadFile resolves without file metadata
UploadResolvedNoFile ==
    /\ pc = "staging" /\ sPc = "uploadFile"
    /\ StagerThrows("NoFile", NoFileMessage)
    /\ UNCHANGED <<toolVars, reportVars, envVars, attempt, useInlineUpload, mimeType, result, sAttempt, file,
                   opId, uploads, polls, sawReady, sawFailed, headSaw, lastResponse>>

\* variant: the stager submits the upload again after a transport error
UploadRejectedResubmit(e) ==
    /\ pc = "staging" /\ sPc = "uploadFile"
    /\ uploads' = uploads + 1
    /\ UNCHANGED <<toolVars, reportVars, envVars, orchVars, stagerVars, opId, stagings, waits, polls,
                   sawReady, sawFailed, headSaw, orchHist>>

\* line 22: uploadFile rejects
UploadRejected(e) ==
    /\ pc = "staging" /\ sPc = "uploadFile"
    /\ StagerThrows("UploadError", e)
    /\ UNCHANGED <<toolVars, reportVars, envVars, attempt, useInlineUpload, mimeType, result, sAttempt, file,
                   opId, uploads, polls, sawReady, sawFailed, headSaw, lastResponse>>

\* lines 48-49: wait(pollIntervalMs) resolves and getFile is issued
WaitElapsed ==
    /\ pc = "staging" /\ sPc = "wait"
    /\ sPc' = "getFile"
    /\ polls' = polls + 1
    /\ UNCHANGED <<toolVars, reportVars, envVars, orchVars, sAttempt, file, opId, stagings, uploads, waits,
                   sawReady, sawFailed, headSaw, orchHist>>

\* line 49 and the loop's attempt += 1: getFile resolves with the metadata of the same file
GetFileResolved(f) ==
    /\ pc = "staging" /\ sPc = "getFile"
    /\ f.uri = file[1].uri
    /\ AfterFile(f, sAttempt + 1)
    /\ UNCHANGED <<toolVars, reportVars, envVars, attempt, useInlineUpload, mimeType, result,
                   opId, uploads, polls, lastResponse>>

\* line 49: getFile rejects
GetFileRejected(e) ==
    /\ pc = "staging" /\ sPc = "getFile"
    /\ StagerThrows("PollError", e)
    /\ UNCHANGED <<toolVars, reportVars, envVars, attempt, useInlineUpload, mimeType, result, sAttempt, file,
                   opId, uploads, polls, sawReady, sawFailed, headSaw, lastResponse>>

----------------------------------------------------------------------------

Upload ==
    \/ \E f \in RemoteFiles(RemoteUris) : UploadResolved(f)
    \/ UploadResolvedNoFile
    \/ \E e \in UploadErrors : UploadRejected(e)

GetFile ==
    \/ \E f \in RemoteFiles(RemoteUris) : GetFileResolved(f)
    \/ \E e \in GetFileErrors : GetFileRejected(e)

ReadFile ==
    \/ ReadFileResolved
    \/ \E e \in ReadFileErrors : ReadFileRejected(e)

Generate ==
    \/ \E r \in Responses : GenerateResolved(r)
    \/ \E e \in GenErrors : GenerateRejected(e)

Next ==
    \/ Start
    \/ StatResolved
    \/ ReadFile
    \/ Generate
    \/ DelayElapsed
    \/ Upload
    \/ WaitElapsed
    \/ GetFile

Spec == Init /\ [][Next]_vars

\* every awaited promise (a timer or a remote call under the SDK's request timeout) settles
FairSpec == Spec /\ WF_vars(Next)

Done == pc \in {"returned", "failed"}

----------------------------------------------------------------------------
(* reports/index.ts, utils/s3.ts : saveTranscriptionReport *)

OutputFormats == {"md", "docx", "pdf"}

\* the requested formats: a list without repetition of format identifiers
FormatLists ==
    {q \in UNION {[1..n -> OutputFormats] : n \in 0..Cardinality(OutputFormats)} :
        \A i, j \in 1..Len(q) : q[i] = q[j] => i = j}

Extension(f) ==
    CASE f = "md" -> ".md"
      [] f = "docx" -> ".docx"
      [] f = "pdf" -> ".pdf"

ToUpperCase(f) ==
    CASE f = "md" -> "MD"
      [] f = "docx" -> "DOCX"
      [] f = "pdf" -> "PDF"

Prefixes == {<<>>, <<"reports">>, <<"/", "reports", "/">>, <<"/">>}

S3Configs == {Undefined} \cup {Some([bucket |-> "bucket", prefix |-> p]) : p \in Prefixes}

MkdirErrors == {<<"EACCES">>}
WriteErrors == {<<"EACCES">>, <<"ENOSPC">>}
PackErrors == {<<"Packer failed">>}
PdfErrors == {<<"stream error">>, <<"document error">>}
SendErrors == {<<"AccessDenied">>, <<"NoSuchBucket">>}

Cwd == <<"/cwd", "/">>
BaseFilename == <<"meeting", "_", "timestamp">>

\* path.join(transcriptsDirectory, `${baseFilename}${formatDefinition.extension}`)
TargetPath(f) == Cwd \o <<"transcripts", "/">> \o BaseFilename \o <<Extension(f)>>

\* path.relative(process.cwd(), filePath) || filePath
formatDisplayPath(filePath) ==
    LET relative == IF Len(filePath) >= Len(Cwd) /\ SubSeq(filePath, 1, Len(Cwd)) = Cwd
                    THEN SubSeq(filePath, Len(Cwd) + 1, Len(filePath))
                    ELSE filePath
    IN IF relative # <<>> THEN relative ELSE filePath

RECURSIVE basename(_)
basename(filePath) ==
    IF \E i \in 1..Len(filePath) : filePath[i] = "/" THEN basename(Tail(filePath)) ELSE filePath

RECURSIVE StripLeadingSlashes(_)
StripLeadingSlashes(t) ==
    IF t # <<>> /\ Head(t) = "/" THEN StripLeadingSlashes(Tail(t)) ELSE t

RECURSIVE StripTrailingSlashes(_)
StripTrailingSlashes(t) ==
    IF t # <<>> /\ t[Len(t)] = "/" THEN StripTrailingSlashes(SubSeq(t, 1, Len(t) - 1)) ELSE t

sanitizePrefix(prefix) ==
    IF prefix = <<>> THEN Undefined
    ELSE LET trimmed == StripTrailingSlashes(StripLeadingSlashes(prefix))
         IN IF Len(trimmed) > 0 THEN Some(trimmed) ELSE Undefined

buildKey(config, filePath) ==
    LET baseName == basename(filePath)
        resolvedPrefix == sanitizePrefix(config.prefix)
    IN IF resolvedPrefix = Undefined THEN baseName
       ELSE resolvedPrefix[1] \o <<"/">> \o baseName

\* the value uploadFile resolves with
RemoteLocation(config, localPath) == <<"s3://", config.bucket, "/">> \o buildKey(config, localPath)

LogEntry(level, message) == [level |-> level, message |-> message]

SaveFailedMessage(f, e) == <<"Failed to save ", ToUpperCase(f), " report: ">> \o e

UploadFailedMessage(f, e) == <<"Failed to upload ", ToUpperCase(f), " report to S3: ">> \o e

\* the logger calls after the loop
SummaryLogs(saved, uploaded) ==
    (IF Len(saved) > 0
     THEN <<LogEntry("success", <<"Saved transcription report:">>)>>
          \o [i \in 1..Len(saved) |-> LogEntry("info", <<"  - ">> \o formatDisplayPath(saved[i]))]
     ELSE <<>>)
    \o
    (IF Len(uploaded) > 0
     THEN <<LogEntry("success", <<"Uploaded report to S3:">>)>>
          \o [i \in 1..Len(uploaded) |-> LogEntry("info", <<"  - ">> \o uploaded[i])]
     ELSE <<>>)

----------------------------------------------------------------------------
(* reports/markdown.ts, reports/docx.ts, reports/pdf.ts : the renderers *)
(* A transcript line is a sequence of characters; the other strings are    *)
(* sequences of tokens in which every character escapeMarkdown rewrites is *)
(* a token of its own (the grave accent is the token "backtick").          *)

MaxLines == 2

Notice == "No transcript content returned by the model."

TranscriptLines ==
    {<<>>,
     <<"h", "i">>,
     <<"A", "l", ":", " ", "h", "i">>,
     <<"[", "A", "l", "]", ":", " ", "h", "i">>,
     <<"j", "u", "s", "t", " ", "p", "l", "a", "i", "n", " ", "t", "e", "x", "t">>,
     <<"D", "r", ".", " ", "S", "m", "i", "t", "h", ":", " ",
       "H", "e", "l", "l", "o", " ", "t", "h", "e", "r", "e">>}

TranscriptLineLists == UNION {[1..n -> TranscriptLines] : n \in 0..MaxLines}

MetadataLists ==
    {<<[label |-> <<"Model">>, value |-> <<"flash">>]>>,
     <<[label |-> <<"Source File">>, value |-> <<"a", "_", "b", "<", "c", "|", "d.mp3">>],
       [label |-> <<"Model">>, value |-> <<"flash">>]>>}

ReportDatas ==
    {[title |-> <<"Transcription Report">>, subtitle |-> <<"meeting.mp3">>,
      metadata |-> m, transcriptLines |-> tl] :
        m \in MetadataLists, tl \in TranscriptLineLists}

\* entry.label.toUpperCase()
LabelToUpperCase(label) ==
    [i \in 1..Len(label) |->
        CASE label[i] = "Model" -> "MODEL"
          [] label[i] = "Source File" -> "SOURCE FILE"
          [] label[i] = "Generated" -> "GENERATED"
          [] label[i] = "Speakers" -> "SPEAKERS"
          [] label[i] = "Prompt Tokens" -> "PROMPT TOKENS"
          [] label[i] = "Output Tokens" -> "OUTPUT TOKENS"
          [] label[i] = "Total Tokens" -> "TOTAL TOKENS"
          [] label[i] = "Estimated Cost" -> "ESTIMATED COST"]

RECURSIVE ReplaceAll(_, _, _)
ReplaceAll(t, ch, replacement) ==
    IF t = <<>> THEN <<>>
    ELSE (IF Head(t) = ch THEN replacement ELSE <<Head(t)>>)
         \o ReplaceAll(Tail(t), ch, replacement)

escapeMarkdown(text) ==
    LET t1 == ReplaceAll(text, "\\", <<"\\", "\\">>)
        t2 == ReplaceAll(t1, "*", <<"\\", "*">>)
        t3 == ReplaceAll(t2, "_", <<"\\", "_">>)
        t4 == ReplaceAll(t3, "[", <<"\\", "[">>)
        t5 == ReplaceAll(t4, "]", <<"\\", "]">>)
        t6 == ReplaceAll(t5, "backtick", <<"\\", "backtick">>)
        t7 == ReplaceAll(t6, "<", <<"&", "lt;">>)
        t8 == ReplaceAll(t7, ">", <<"&", "gt;">>)
        t9 == ReplaceAll(t8, "&", <<"&", "amp;">>)
        t10 == ReplaceAll(t9, "|", <<"\\", "|">>)
    IN ReplaceAll(t10, "\n", <<"<br />">>)

\* lines.join("\n")
RECURSIVE Join(_)
Join(lines) ==
    IF lines = <<>> THEN <<>>
    ELSE IF Len(lines) = 1 THEN lines[1]
    ELSE lines[1] \o <<"\n">> \o Join(Tail(lines))

\* the lines pushed for the transcript
MarkdownTranscript(transcriptLines) ==
    IF Len(transcriptLines) = 0
    THEN << <<"_", Notice, "_">> >>
    ELSE [i \in 1..Len(transcriptLines) |->
             IF Len(transcriptLines[i]) = 0 THEN <<>> ELSE transcriptLines[i]]

buildMarkdownReport(data) ==
    Join(<< <<"# ">> \o data.title,
            <<>>,
            <<"_">> \o data.subtitle \o <<"_">>,
            <<>>,
            <<"---">>,
            <<>>,
            <<"## Session Details">>,
            <<>>,
            <<"| Detail | Value |">>,
            <<"| --- | --- |">> >>
         \o [i \in 1..Len(data.metadata) |->
                <<"| ">> \o escapeMarkdown(data.metadata[i].label) \o <<" | ">>
                \o escapeMarkdown(data.metadata[i].value) \o <<" |">>]
         \o << <<>>, <<"## Transcript">>, <<>> >>
         \o MarkdownTranscript(data.transcriptLines)
         \o << <<>>,
               <<"---">>,
               <<>>,
               <<"_Generated automatically by Gemini Audio Transcriber._">> >>)

UpperCaseLetters ==
    {"A", "B", "C", "D", "E", "F", "G", "H", "I", "J", "K", "L", "M",
     "N", "O", "P", "Q", "R", "S", "T", "U", "V", "W", "X", "Y", "Z"}
LowerCaseLetters ==
    {"a", "b", "c", "d", "e", "f", "g", "h", "i", "j", "k", "l", "m",
     "n", "o", "p", "q", "r", "s", "t", "u", "v", "w", "x", "y", "z"}

\* the character class [A-Za-z0-9\s]
LabelChars == UpperCaseLetters \cup LowerCaseLetters \cup Range(DigitChars) \cup WhiteSpace

RECURSIVE RunLength(_, _)
RunLength(t, class) ==
    IF t # <<>> /\ Head(t) \in class THEN 1 + RunLength(Tail(t), class) ELSE 0

\* the length of match[1] for /^(\[?[A-Z][A-Za-z0-9\s]+\]?:)/ when brackets, and for
\* /^([A-Z][A-Za-z0-9\s]+:)/ when not; 0 when the pattern does not match
SpeakerMatch(line, brackets) ==
    LET open == IF brackets /\ line # <<>> /\ Head(line) = "[" THEN 1 ELSE 0
        rest == SubSeq(line, open + 1, Len(line))
    IN IF rest = <<>> \/ Head(rest) \notin UpperCaseLetters THEN 0
       ELSE LET n == RunLength(Tail(rest), LabelChars)
                after == SubSeq(rest, n + 2, Len(rest))
                close == IF brackets /\ after # <<>> /\ Head(after) = "]" THEN 1 ELSE 0
                tail == SubSeq(after, close + 1, Len(after))
            IN IF n >= 1 /\ tail # <<>> /\ Head(tail) = ":"
               THEN open + 1 + n + close + 1
               ELSE 0

TextRun(text, bold, italics) == [text |-> text, bold |-> bold, italics |-> italics]

Paragraph(runs) == [kind |-> "paragraph", runs |-> runs]

parseTranscriptLine(line) ==
    LET first == SpeakerMatch(line, TRUE)
        second == SpeakerMatch(line, FALSE)
        matched == IF first > 0 THEN first ELSE second
    IN IF matched > 0
       THEN LET speakerLabel == SubSeq(line, 1, matched)
                content == Trim(SubSeq(line, matched + 1, Len(line)))
            IN <<TextRun(speakerLabel, TRUE, FALSE),
                 TextRun(IF Len(content) > 0 THEN <<" ">> \o content ELSE <<>>, FALSE, FALSE)>>
       ELSE <<TextRun(line, FALSE, FALSE)>>

createSectionDivider == [kind |-> "divider", runs |-> <<>>]

createSessionDetailsHeading == Paragraph(<<TextRun(<<"Session Details">>, TRUE, FALSE)>>)

RECURSIVE Flatten(_)
Flatten(rows) == IF rows = <<>> THEN <<>> ELSE Head(rows) \o Flatten(Tail(rows))

\* the table's cells, row after row
createMetadataTable(metadata) ==
    [kind |-> "table",
     runs |-> Flatten([i \in 1..Len(metadata) |->
                          <<TextRun(LabelToUpperCase(metadata[i].label), TRUE, FALSE),
                            TextRun(metadata[i].value, FALSE, FALSE)>>])]

createTranscriptHeading == Paragraph(<<TextRun(<<"Transcript">>, TRUE, FALSE)>>)

createTranscriptParagraphsNoNotice(transcriptLines) ==
    [i \in 1..Len(transcriptLines) |->
        IF Len(transcriptLines[i]) > 0
        THEN Paragraph(parseTranscriptLine(transcriptLines[i]))
        ELSE Paragraph(<<>>)]

createTranscriptParagraphs(transcriptLines) ==
    IF Len(transcriptLines) = 0
    THEN <<Paragraph(<<TextRun(<<Notice>>, FALSE, TRUE)>>)>>
    ELSE [i \in 1..Len(transcriptLines) |->
             IF Len(transcriptLines[i]) > 0
             THEN Paragraph(parseTranscriptLine(transcriptLines[i]))
             ELSE Paragraph(<<>>)]

createTitleParagraph(title) == Paragraph(<<TextRun(title, TRUE, FALSE)>>)

createSubtitleParagraph(subtitle) == Paragraph(<<TextRun(subtitle, FALSE, TRUE)>>)

\* the children of the document's section
writeDocxReport(data) ==
    <<createTitleParagraph(data.title),
      createSubtitleParagraph(data.subtitle),
      createSectionDivider,
      createSessionDetailsHeading,
      createMetadataTable(data.metadata),
      createSectionDivider,
      createTranscriptHeading>>
    \o createTranscriptParagraphs(data.transcriptLines)

\* the calls made on the PDF document
PdfText(text, font) == [op |-> "text", text |-> text, font |-> font]
PdfMoveDown == [op |-> "moveDown", text |-> <<>>, font |-> ""]
drawSectionDivider == [op |-> "divider", text |-> <<>>, font |-> ""]

renderTitle(title, subtitle) ==
    <<PdfText(title, "Helvetica-Bold"), PdfMoveDown,
      PdfText(subtitle, "Helvetica-Oblique"), PdfMoveDown, drawSectionDivider>>

renderSessionDetails(metadata) ==
    <<PdfText(<<"Session Details">>, "Helvetica-Bold"), PdfMoveDown>>
    \o Flatten([i \in 1..Len(metadata) |->
                   <<PdfText(LabelToUpperCase(metadata[i].label), "Helvetica"),
                     PdfText(metadata[i].value, "Helvetica")>>])
    \o <<PdfMoveDown, drawSectionDivider>>

renderTranscript(transcriptLines) ==
    <<PdfText(<<"Transcript">>, "Helvetica-Bold"), PdfMoveDown>>
    \o (IF Len(transcriptLines) = 0
        THEN <<PdfText(<<Notice>>, "Helvetica-Oblique")>>
        ELSE [i \in 1..Len(transcriptLines) |->
                 IF Len(transcriptLines[i]) = 0 THEN PdfMoveDown
                 ELSE PdfText(transcriptLines[i], "Helvetica")])

renderFooter ==
    <<PdfMoveDown, drawSectionDivider,
      PdfText(<<"Generated automatically by Gemini Audio Transcriber.">>, "Helvetica-Oblique")>>

writePdfReport(data) ==
    renderTitle(data.title, data.subtitle)
    \o renderSessionDetails(data.metadata)
    \o renderTranscript(data.transcriptLines)
    \o renderFooter

RenderMarkdown ==
    /\ reportData # Undefined
    /\ markdown = Undefined
    /\ markdown' = Some(buildMarkdownReport(reportData[1]))
    /\ UNCHANGED <<toolVars, transcriberVars, pubVars, pubHist, buildVars, reportData, docx, pdf>>

RenderDocx ==
    /\ reportData # Undefined
    /\ docx = Undefined
    /\ docx' = Some(writeDocxReport(reportData[1]))
    /\ UNCHANGED <<toolVars, transcriberVars, pubVars, pubHist, buildVars, reportData, markdown, pdf>>

RenderPdf ==
    /\ reportData # Undefined
    /\ pdf = Undefined
    /\ pdf' = Some(writePdfReport(reportData[1]))
    /\ UNCHANGED <<toolVars, transcriberVars, pubVars, pubHist, buildVars, reportData, markdown, docx>>

\* a ReportData has been built and no renderer has run yet
RenderInit ==
    /\ apiKeySet = TRUE
    /\ ext = ".mp3"
    /\ diskSize = INLINE_UPLOAD_MAX_BYTES
    /\ TranscriberIdle
    /\ ToolsIdle
    /\ PublisherIdle
    /\ transcription = <<>>
    /\ context = Undefined
    /\ costEstimate = Undefined
    /\ reportData \in {Some(d) : d \in ReportDatas}
    /\ markdown = Undefined
    /\ docx = Undefined
    /\ pdf = Undefined

RenderNext ==
    \/ RenderMarkdown
    \/ RenderDocx
    \/ RenderPdf

RenderSpec == RenderInit /\ [][RenderNext]_vars

----------------------------------------------------------------------------
(* api/pricing.ts, utils/formatting.ts, reports/builder.ts : buildReportData *)
(* Money is counted in units of 10^-8 dollar, so that (tokens / 1_000_000) *)
(* times a price in dollars per million tokens is a whole number.          *)

MaxTranscriptLen == 3

TranscriptChars == {"a", " ", "\n", "\r"}

Transcriptions == UNION {[1..n -> TranscriptChars] : n \in 0..MaxTranscriptLen}

ModelChoices == {"gemini-2.5-pro", "gemini-flash-latest"}

TokenCounts == {0, 1, 8000, 1000000}

OptionalCounts == {Undefined} \cup {Some(n) : n \in TokenCounts}

\* UsageMetadata, or undefined
UsageMetadatas ==
    {Undefined} \cup
    {Some(u) : u \in [promptTokenCount : OptionalCounts,
                      candidatesTokenCount : OptionalCounts,
                      totalTokenCount : {Undefined, Some(8001)}]}

SpeakerLists ==
    {Undefined,
     Some(<<>>),
     Some(<<[label |-> <<"Al">>, description |-> <<>>]>>),
     Some(<<[label |-> <<"Dr. Smith">>, description |-> <<"host">>],
            [label |-> <<"Al">>, description |-> <<>>]>>)}

AudioFilePath == Cwd \o <<"audio", "/", "meeting.mp3">>

\* generatedAt.toLocaleString()
GeneratedAtLocal == <<"11/3/2026, 4:05:00 AM">>

\* the prices in hundredths of a dollar per million tokens
MODEL_PRICING(modelChoice) ==
    CASE modelChoice = "gemini-2.5-pro" ->
             Some([inputPerMillion |-> 125, outputPerMillion |-> 1000])
      [] modelChoice = "gemini-flash-latest" ->
             Some([inputPerMillion |-> 100, outputPerMillion |-> 250])
      [] OTHER -> Undefined

\* const { promptTokenCount = 0, candidatesTokenCount = 0 } = usage
OrZero(count) == IF count = Undefined THEN 0 ELSE count[1]

estimateCostInputOnly(modelChoice, usage) ==
    IF usage = Undefined THEN Undefined
    ELSE LET pricing == MODEL_PRICING(modelChoice)
         IN IF pricing = Undefined THEN Undefined
            ELSE LET inputCost == OrZero(usage[1].promptTokenCount) * pricing[1].inputPerMillion
                     outputCost ==
                         OrZero(usage[1].candidatesTokenCount) * pricing[1].outputPerMillion
                 IN Some([inputCost |-> inputCost, outputCost |-> outputCost,
                          totalCost |-> inputCost])

estimateCost(modelChoice, usage) ==
    IF usage = Undefined THEN Undefined
    ELSE LET pricing == MODEL_PRICING(modelChoice)
         IN IF pricing = Undefined THEN Undefined
            ELSE LET inputCost == OrZero(usage[1].promptTokenCount) * pricing[1].inputPerMillion
                     outputCost ==
                         OrZero(usage[1].candidatesTokenCount) * pricing[1].outputPerMillion
                 IN Some([inputCost |-> inputCost, outputCost |-> outputCost,
                          totalCost |-> inputCost + outputCost])

RECURSIVE PadStart(_, _)
PadStart(digits, width) ==
    IF Len(digits) >= width THEN digits ELSE PadStart(<<"0">> \o digits, width)

\* value.toFixed(4) below one cent, value.toFixed(2) otherwise
toCurrency(value) ==
    LET small == value < 1000000
        perDollar == IF small THEN 10000 ELSE 100
        width == IF small THEN 4 ELSE 2
        unit == 100000000 \div perDollar
        rounded == (value + (unit \div 2)) \div unit
    IN <<"$">> \o ToDigits(rounded \div perDollar) \o <<".">>
       \o PadStart(ToDigits(rounded % perDollar), width)

\* value.toLocaleString(): groups of three digits
RECURSIVE GroupDigits(_)
GroupDigits(digits) ==
    IF Len(digits) <= 3 THEN digits
    ELSE GroupDigits(SubSeq(digits, 1, Len(digits) - 3)) \o <<",">>
         \o SubSeq(digits, Len(digits) - 2, Len(digits))

formatNumber(value) ==
    IF value = Undefined THEN <<"0">> ELSE GroupDigits(ToDigits(value[1]))

RECURSIVE JoinWith(_, _)
JoinWith(parts, separator) ==
    IF parts = <<>> THEN <<>>
    ELSE IF Len(parts) = 1 THEN parts[1]
    ELSE parts[1] \o separator \o JoinWith(Tail(parts), separator)

\* transcription.split(/\r?\n/), with current the line collected so far
RECURSIVE SplitLines(_, _)
SplitLines(t, current) ==
    IF t = <<>> THEN <<current>>
    ELSE IF Head(t) = "\n" THEN <<current>> \o SplitLines(Tail(t), <<>>)
    ELSE IF Head(t) = "\r" /\ Len(t) >= 2 /\ t[2] = "\n"
         THEN <<current>> \o SplitLines(Tail(Tail(t)), <<>>)
    ELSE SplitLines(Tail(t), Append(current, Head(t)))

transcriptLinesOfNoTrim(text) == SplitLines(text, <<>>)

transcriptLinesOfDropsBlank(text) ==
    LET lines == SplitLines(text, <<>>)
    IN IF \A i \in 1..Len(lines) : TrimEnd(lines[i]) = <<>> THEN <<>>
       ELSE [i \in 1..Len(lines) |-> TrimEnd(lines[i])]

\* transcription.split(/\r?\n/).map((line) => line.trimEnd())
transcriptLinesOf(text) ==
    LET lines == SplitLines(text, <<>>)
    IN [i \in 1..Len(lines) |-> TrimEnd(lines[i])]

MetadataEntry(label, value) == [label |-> <<label>>, value |-> value]

speakerDescriptions(speakers) ==
    [i \in 1..Len(speakers) |->
        IF speakers[i].description # <<>>
        THEN speakers[i].label \o <<" (">> \o speakers[i].description \o <<")">>
        ELSE speakers[i].label]

\* the entries pushed when usage metadata is present
usageEntries(modelChoice, usage) ==
    LET costEst == estimateCost(modelChoice, usage)
    IN <<MetadataEntry("Prompt Tokens", formatNumber(usage[1].promptTokenCount)),
         MetadataEntry("Output Tokens", formatNumber(usage[1].candidatesTokenCount)),
         MetadataEntry("Total Tokens", formatNumber(usage[1].totalTokenCount))>>
       \o (IF costEst # Undefined
           THEN <<MetadataEntry("Estimated Cost",
                                toCurrency(costEst[1].totalCost)
                                \o <<" (input ">> \o toCurrency(costEst[1].inputCost)
                                \o <<", output ">> \o toCurrency(costEst[1].outputCost)
                                \o <<")">>)>>
           ELSE <<>>)

metadataOfSkipsSpeakers(ctx) ==
    <<MetadataEntry("Source File", basename(ctx.audioFilePath)),
      MetadataEntry("Model", <<ctx.modelChoice>>),
      MetadataEntry("Generated", GeneratedAtLocal)>>
    \o (IF ctx.speakers # Undefined /\ Len(ctx.speakers[1]) > 0
        THEN <<MetadataEntry("Speakers",
                             JoinWith(speakerDescriptions(ctx.speakers[1]), <<"; ">>))>>
        ELSE <<>>)
    \o (IF ctx.usageMetadata # Undefined
        THEN usageEntries(ctx.modelChoice, ctx.usageMetadata)
        ELSE <<>>)

metadataOf(ctx) ==
    <<MetadataEntry("Source File", basename(ctx.audioFilePath)),
      MetadataEntry("Model", <<ctx.modelChoice>>),
      MetadataEntry("Generated", GeneratedAtLocal),
      MetadataEntry("Speakers",
                    IF ctx.speakers # Undefined /\ Len(ctx.speakers[1]) > 0
                    THEN JoinWith(speakerDescriptions(ctx.speakers[1]), <<"; ">>)
                    ELSE <<"Not provided">>)>>
    \o (IF ctx.usageMetadata # Undefined
        THEN usageEntries(ctx.modelChoice, ctx.usageMetadata)
        ELSE <<>>)

buildReportData(text, ctx) ==
    [title |-> <<"Transcription Report">>,
     subtitle |-> basename(ctx.audioFilePath),
     metadata |-> metadataOf(ctx),
     transcriptLines |-> transcriptLinesOf(text)]

\* the usage metadata the report contexts carry
ReportUsages ==
    {Undefined,
     Some([promptTokenCount |-> Undefined, candidatesTokenCount |-> Undefined,
           totalTokenCount |-> Undefined]),
     Some([promptTokenCount |-> Some(8000), candidatesTokenCount |-> Some(1),
           totalTokenCount |-> Some(8001)]),
     Some([promptTokenCount |-> Some(1000000), candidatesTokenCount |-> Some(1000000),
           totalTokenCount |-> Some(8001)])}

ReportContexts ==
    [audioFilePath : {AudioFilePath}, modelChoice : ModelChoices,
     speakers : SpeakerLists, usageMetadata : ReportUsages]

\* the contexts estimateCost is tried on: the model identifiers, and the model identifier
\* of a session in which nothing has been transcribed yet (which has no pricing entry)
CostContexts ==
    [audioFilePath : {AudioFilePath}, modelChoice : ModelChoices \cup {""},
     speakers : {Undefined}, usageMetadata : UsageMetadatas]

BuildReport ==
    /\ context # Undefined
    /\ reportData = Undefined
    /\ reportData' = Some(buildReportData(transcription, context[1]))
    /\ UNCHANGED <<toolVars, transcriberVars, pubVars, pubHist, buildVars, markdown, docx, pdf>>

EstimateCost ==
    /\ context # Undefined
    /\ costEstimate = Undefined
    /\ costEstimate' = Some(estimateCost(context[1].modelChoice, context[1].usageMetadata))
    /\ UNCHANGED <<toolVars, transcriberVars, pubVars, pubHist, transcription, context,
                   reportData, markdown, docx, pdf>>

\* a transcript and its context are about to be turned into a report
BuildInit ==
    /\ apiKeySet = TRUE
    /\ ext = ".mp3"
    /\ diskSize = INLINE_UPLOAD_MAX_BYTES
    /\ TranscriberIdle
    /\ ToolsIdle
    /\ PublisherIdle
    /\ transcription \in Transcriptions
    /\ context \in {Some(c) : c \in ReportContexts}
    /\ costEstimate = Undefined
    /\ reportData = Undefined
    /\ markdown = Undefined
    /\ docx = Undefined
    /\ pdf = Undefined

BuildNext ==
    \/ BuildReport
    \/ RenderMarkdown
    \/ RenderDocx
    \/ RenderPdf

BuildSpec == BuildInit /\ [][BuildNext]_vars

\* estimateCost is about to be called
CostInit ==
    /\ apiKeySet = TRUE
    /\ ext = ".mp3"
    /\ diskSize = INLINE_UPLOAD_MAX_BYTES
    /\ TranscriberIdle
    /\ ToolsIdle
    /\ PublisherIdle
    /\ transcription = <<>>
    /\ context \in {Some(c) : c \in CostContexts}
    /\ costEstimate = Undefined
    /\ reportData = Undefined
    /\ markdown = Undefined
    /\ docx = Undefined
    /\ pdf = Undefined

CostNext == EstimateCost

CostSpec == CostInit /\ [][CostNext]_vars

----------------------------------------------------------------------------
(* reports/index.ts : the steps of saveTranscriptionReport *)

\* the transcripts and contexts saveTranscriptionReport is called with
PubTranscriptions == {<<>>, <<"a", "\n", "a">>}

PubContexts ==
    {c \in ReportContexts :
         /\ c.modelChoice = "gemini-2.5-pro"
         /\ \/ c.speakers = Undefined /\ c.usageMetadata = Undefined
            \/ /\ c.speakers # Undefined /\ Len(c.speakers[1]) = 1
               /\ c.usageMetadata # Undefined
               /\ c.usageMetadata[1].promptTokenCount = Some(8000)}

\* the switch on the format: the renderer of the format is called with reportData and
\* has built its document when the first await inside it is reached
RenderConsumesLines(format) ==
    /\ reportData' = Some([reportData[1] EXCEPT !.transcriptLines = Tail(@)])
    /\ markdown' = IF format = "md" THEN Some(buildMarkdownReport(reportData[1])) ELSE markdown
    /\ docx' = IF format = "docx" THEN Some(writeDocxReport(reportData[1])) ELSE docx
    /\ pdf' = IF format = "pdf" THEN Some(writePdfReport(reportData[1])) ELSE pdf

Render(format) ==
    /\ reportData' = reportData
    /\ markdown' = IF format = "md" THEN Some(buildMarkdownReport(reportData[1])) ELSE markdown
    /\ docx' = IF format = "docx" THEN Some(writeDocxReport(reportData[1])) ELSE docx
    /\ pdf' = IF format = "pdf" THEN Some(writePdfReport(reportData[1])) ELSE pdf

\* the for-of loop reaching position i with the logger calls lg made so far: it starts
\* the render/write of formats[i], or leaves the loop, logs the summary and returns
LoopHead(i, saved, uploaded, lg) ==
    /\ pIndex' = i
    /\ pReturn' = Undefined
    /\ IF i <= Len(formats)
       THEN /\ pPc' = CASE formats[i] = "md" -> "writeFile"
                        [] formats[i] = "docx" -> "toBuffer"
                        [] formats[i] = "pdf" -> "pdfStream"
            /\ attempted' = Append(attempted, formats[i])
            /\ logs' = lg
            /\ Render(formats[i])
       ELSE /\ pPc' = "done"
            /\ logs' = lg \o SummaryLogs(saved, uploaded)
            /\ UNCHANGED <<attempted, reportData, markdown, docx, pdf>>

PubStartMkdirFirst ==
    /\ pPc = "start"
    /\ pPc' = "mkdir"
    /\ reportData' = Some(buildReportData(transcription, context[1]))
    /\ UNCHANGED <<toolVars, transcriberVars, buildVars, markdown, docx, pdf, pubHist, formats, s3Config,
                   pIndex, savedFiles, s3UploadedFiles, logs, pReturn, pThrown>>

PubStart ==
    /\ pPc = "start"
    /\ IF Len(formats) = 0
       THEN pPc' = "done" /\ pReturn' = Undefined /\ UNCHANGED reportData
       ELSE /\ reportData' = Some(buildReportData(transcription, context[1]))
            /\ pPc' = "mkdir"
            /\ UNCHANGED pReturn
    /\ UNCHANGED <<toolVars, transcriberVars, buildVars, markdown, docx, pdf, pubHist, formats, s3Config,
                   pIndex, savedFiles, s3UploadedFiles, logs, pThrown>>

MkdirResolved ==
    /\ pPc = "mkdir"
    /\ savedFiles' = <<>>
    /\ s3UploadedFiles' = <<>>
    /\ LoopHead(1, <<>>, <<>>, logs)
    /\ UNCHANGED <<toolVars, transcriberVars, buildVars, formats, s3Config, pThrown, saveOutcomes,
                   uploadCalls, uploadOutcomes, disk>>

MkdirRejected(e) ==
    /\ pPc = "mkdir"
    /\ pPc' = "rejected"
    /\ pThrown' = Some(e)
    /\ UNCHANGED <<toolVars, transcriberVars, renderVars, pubHist, formats, s3Config, pIndex, savedFiles,
                   s3UploadedFiles, logs, pReturn>>

\* the catch block of the outer try: the render/write of formats[pIndex] threw e
CatchSaveBreaksLoop(e) ==
    /\ saveOutcomes' = Append(saveOutcomes, "failed")
    /\ LoopHead(Len(formats) + 1, savedFiles, s3UploadedFiles,
                Append(logs, LogEntry("error", SaveFailedMessage(formats[pIndex], e))))
    /\ UNCHANGED <<savedFiles, s3UploadedFiles, uploadCalls, uploadOutcomes, disk>>

CatchSaveThenUploads(e) ==
    /\ saveOutcomes' = Append(saveOutcomes, "failed")
    /\ IF s3Config # Undefined
       THEN /\ pPc' = "send"
            /\ uploadCalls' = Append(uploadCalls, TargetPath(formats[pIndex]))
            /\ logs' = Append(logs, LogEntry("error", SaveFailedMessage(formats[pIndex], e)))
            /\ UNCHANGED <<pIndex, pReturn, attempted, reportData, markdown, docx, pdf>>
       ELSE /\ LoopHead(pIndex + 1, savedFiles, s3UploadedFiles,
                        Append(logs, LogEntry("error", SaveFailedMessage(formats[pIndex], e))))
            /\ UNCHANGED uploadCalls
    /\ UNCHANGED <<savedFiles, s3UploadedFiles, uploadOutcomes, disk>>

CatchSave(e) ==
    /\ saveOutcomes' = Append(saveOutcomes, "failed")
    /\ LoopHead(pIndex + 1, savedFiles, s3UploadedFiles,
                Append(logs, LogEntry("error", SaveFailedMessage(formats[pIndex], e))))
    /\ UNCHANGED <<savedFiles, s3UploadedFiles, uploadCalls, uploadOutcomes, disk>>

\* after the switch: the write of formats[pIndex] has completed
AfterWrite ==
    LET targetPath == TargetPath(formats[pIndex])
    IN /\ disk' = disk \cup {targetPath}
       /\ saveOutcomes' = Append(saveOutcomes, "ok")
       /\ savedFiles' = Append(savedFiles, targetPath)
       /\ IF s3Config # Undefined
          THEN /\ pPc' = "send"
               /\ uploadCalls' = Append(uploadCalls, targetPath)
               /\ UNCHANGED <<pIndex, pReturn, attempted, logs, reportData, markdown, docx, pdf>>
          ELSE /\ LoopHead(pIndex + 1, Append(savedFiles, targetPath), s3UploadedFiles, logs)
               /\ UNCHANGED uploadCalls
       /\ UNCHANGED <<s3UploadedFiles, uploadOutcomes>>

\* fs.writeFile of the markdown text, or of the buffer inside writeDocxReport
WriteFileResolved ==
    /\ pPc = "writeFile"
    /\ AfterWrite
    /\ UNCHANGED <<toolVars, transcriberVars, buildVars, formats, s3Config, pThrown>>

WriteFileRejected(e) ==
    /\ pPc = "writeFile"
    /\ CatchSave(e)
    /\ UNCHANGED <<toolVars, transcriberVars, buildVars, formats, s3Config, pThrown>>

\* Packer.toBuffer inside writeDocxReport
ToBufferResolved ==
    /\ pPc = "toBuffer"
    /\ pPc' = "writeFile"
    /\ UNCHANGED <<toolVars, transcriberVars, renderVars, pubHist, formats, s3Config, pIndex, savedFiles,
                   s3UploadedFiles, logs, pReturn, pThrown>>

ToBufferRejected(e) ==
    /\ pPc = "toBuffer"
    /\ CatchSave(e)
    /\ UNCHANGED <<toolVars, transcriberVars, buildVars, formats, s3Config, pThrown>>

\* the write stream of writePdfReport emits "finish"
PdfFinished ==
    /\ pPc = "pdfStream"
    /\ AfterWrite
    /\ UNCHANGED <<toolVars, transcriberVars, buildVars, formats, s3Config, pThrown>>

\* the write stream or the document of writePdfReport emits "error"
PdfErrored(e) ==
    /\ pPc = "pdfStream"
    /\ CatchSave(e)
    /\ UNCHANGED <<toolVars, transcriberVars, buildVars, formats, s3Config, pThrown>>

\* client.send inside s3Uploader.uploadFile
SendResolved ==
    /\ pPc = "send"
    /\ uploadOutcomes' = Append(uploadOutcomes, "ok")
    /\ LET remoteLocation == RemoteLocation(s3Config[1], TargetPath(formats[pIndex]))
       IN /\ s3UploadedFiles' = Append(s3UploadedFiles, remoteLocation)
          /\ LoopHead(pIndex + 1, savedFiles, Append(s3UploadedFiles, remoteLocation), logs)
    /\ UNCHANGED <<toolVars, transcriberVars, buildVars, formats, s3Config, pThrown, savedFiles,
                   saveOutcomes, uploadCalls, disk>>

\* the catch block of the inner try: the upload of formats[pIndex] threw e
CatchUploadRollsBack(e) ==
    /\ uploadOutcomes' = Append(uploadOutcomes, "failed")
    /\ savedFiles' = SubSeq(savedFiles, 1, Len(savedFiles) - 1)
    /\ LoopHead(pIndex + 1, SubSeq(savedFiles, 1, Len(savedFiles) - 1), s3UploadedFiles,
                Append(logs, LogEntry("error", UploadFailedMessage(formats[pIndex], e))))
    /\ UNCHANGED <<s3UploadedFiles, saveOutcomes, uploadCalls, disk>>

CatchUploadSilent(e) ==
    /\ uploadOutcomes' = Append(uploadOutcomes, "failed")
    /\ LoopHead(pIndex + 1, savedFiles, s3UploadedFiles, logs)
    /\ UNCHANGED <<savedFiles, s3UploadedFiles, saveOutcomes, uploadCalls, disk>>

CatchUpload(e) ==
    /\ uploadOutcomes' = Append(uploadOutcomes, "failed")
    /\ LoopHead(pIndex + 1, savedFiles, s3UploadedFiles,
                Append(logs, LogEntry("error", UploadFailedMessage(formats[pIndex], e))))
    /\ UNCHANGED <<savedFiles, s3UploadedFiles, saveOutcomes, uploadCalls, disk>>

SendRejected(e) ==
    /\ pPc = "send"
    /\ CatchUpload(e)
    /\ UNCHANGED <<toolVars, transcriberVars, buildVars, formats, s3Config, pThrown>>

Mkdir ==
    \/ MkdirResolved
    \/ \E e \in MkdirErrors : MkdirRejected(e)

WriteFile ==
    \/ WriteFileResolved
    \/ \E e \in WriteErrors : WriteFileRejected(e)

ToBuffer ==
    \/ ToBufferResolved
    \/ \E e \in PackErrors : ToBufferRejected(e)

PdfStream ==
    \/ PdfFinished
    \/ \E e \in PdfErrors : PdfErrored(e)

Send ==
    \/ SendResolved
    \/ \E e \in SendErrors : SendRejected(e)

\* saveTranscriptionReport has just been called with some formats and upload settings
PubInit ==
    /\ apiKeySet = TRUE
    /\ ext = ".mp3"
    /\ diskSize = INLINE_UPLOAD_MAX_BYTES
    /\ TranscriberIdle
    /\ ToolsIdle
    /\ transcription \in PubTranscriptions
    /\ context \in {Some(c) : c \in PubContexts}
    /\ costEstimate = Undefined
    /\ reportData = Undefined
    /\ markdown = Undefined
    /\ docx = Undefined
    /\ pdf = Undefined
    /\ pPc = "start"
    /\ formats \in FormatLists
    /\ s3Config \in S3Configs
    /\ PublisherFresh

PubNext ==
    \/ PubStart
    \/ Mkdir
    \/ WriteFile
    \/ ToBuffer
    \/ PdfStream
    \/ Send

PubSpec == PubInit /\ [][PubNext]_vars

----------------------------------------------------------------------------
(* tools.ts : the tools transcribe_audio, save_report and get_transcription_text, *)
(* and the session storage they share.  The handlers are async functions on one  *)
(* thread: a step is a call of a handler up to its first await, or the           *)
(* resumption of a handler after an await up to its next await or its return.    *)

MaxCalls == 3

\* the arguments transcribe_audio is called with (filePath already absolute)
TranscribeArgs ==
    {[filePath |-> AudioFilePath, modelChoice |-> "gemini-2.5-pro", speakers |-> Undefined],
     [filePath |-> Cwd \o <<"audio", "/", "call.mp3">>, modelChoice |-> "gemini-flash-latest",
      speakers |-> Some(<<[label |-> <<"Al">>, description |-> <<>>]>>)]}

\* what transcribeAndDiarize resolves with: the transcript is never blank
TranscribeResults ==
    {[transcription |-> <<"a">>, usageMetadata |-> Undefined],
     [transcription |-> <<" ", "a", "\n">>,
      usageMetadata |-> Some([promptTokenCount |-> Some(8000),
                              candidatesTokenCount |-> Some(1),
                              totalTokenCount |-> Some(8001)])]}

\* what validateAudioFile resolves with
ValidationErrors == {Undefined, Some(<<"Audio file is empty">>)}

TranscribeErrors == {<<"Gemini returned an empty transcript.">>}

SaveErrors == {<<"EACCES">>}

\* the formats save_report is called with
SaveFormats == {<<>>, <<"md">>, <<"docx", "pdf">>}

\* what resolveS3UploadConfig() returns
ResolvedS3Configs == {Undefined, Some([bucket |-> "bucket", prefix |-> <<"reports">>])}

NoTranscriptionMessage ==
    <<"No transcription available. Please run transcribe_audio first.">>

NoFormatsMessage ==
    <<"No formats specified. Please provide at least one format: md, docx, or pdf">>

\* OUTPUT_FORMATS.find(def => def.id === f)?.label
FormatLabel(f) ==
    CASE f = "md" -> "Markdown"
      [] f = "docx" -> "Word (.docx)"
      [] f = "pdf" -> "PDF"

NoArgs == [filePath |-> <<>>, modelChoice |-> "", speakers |-> Undefined]

\* a tool call: its handler's position, its arguments, the text it returned, the arguments
\* it passed to saveTranscriptionReport, and (history) how many transcribe_audio calls had
\* succeeded when it was made
ToolCall(tool, at, args) ==
    [tool |-> tool, pc |-> at, args |-> args, reply |-> Undefined, published |-> Undefined,
     after |-> Len(successes)]

\* lines 183-187: the five assignments
Stored(args, r) ==
    [lastTranscription |-> r.transcription, lastUsageMetadata |-> r.usageMetadata,
     lastFilePath |-> args.filePath, lastModelChoice |-> args.modelChoice,
     lastSpeakers |-> args.speakers]

\* the result text of a successful transcribe_audio (the preview is the whole transcript
\* when it has at most 500 characters)
TranscribedMessage(args, r) ==
    <<"Transcription completed successfully!", "File: ">> \o basename(args.filePath)
    \o <<"Model: ", args.modelChoice>>
    \o (IF r.usageMetadata # Undefined THEN <<"Token Usage:">> ELSE <<>>)
    \o <<"Transcription Preview (first 500 chars):">> \o r.transcription

\* transcribe_audio is called: the handler runs up to await validateAudioFile
CallTranscribeAudio(args) ==
    /\ Len(calls) < MaxCalls
    /\ calls' = Append(calls, ToolCall("transcribe_audio", "validate", args))
    /\ UNCHANGED <<transcriberVars, reportVars, sessionStorage, successes>>

ValidateResolvedStoresPath(c, validationError) ==
    /\ c \in DOMAIN calls
    /\ calls[c].pc = "validate"
    /\ IF validationError # Undefined
       THEN /\ calls' = [calls EXCEPT ![c].pc = "returned",
                                      ![c].reply = Some(<<"Validation error: ">> \o validationError[1])]
            /\ UNCHANGED sessionStorage
       ELSE /\ calls' = [calls EXCEPT ![c].pc = "transcribe"]
            /\ sessionStorage' = [sessionStorage EXCEPT !.lastFilePath = calls[c].args.filePath,
                                                        !.lastModelChoice = calls[c].args.modelChoice,
                                                        !.lastSpeakers = calls[c].args.speakers]
    /\ UNCHANGED <<transcriberVars, reportVars, successes>>

\* validateAudioFile resolved: the handler returns the validation error, or goes on to
\* await transcribeAndDiarize
ValidateResolved(c, validationError) ==
    /\ c \in DOMAIN calls
    /\ calls[c].pc = "validate"
    /\ IF validationError # Undefined
       THEN calls' = [calls EXCEPT ![c].pc = "returned",
                                   ![c].reply = Some(<<"Validation error: ">> \o validationError[1])]
       ELSE calls' = [calls EXCEPT ![c].pc = "transcribe"]
    /\ UNCHANGED <<transcriberVars, reportVars, sessionStorage, successes>>

\* transcribeAndDiarize resolved with r: the five fields are assigned and the result text
\* is returned
TranscribeResolved(c, r) ==
    /\ c \in DOMAIN calls
    /\ calls[c].pc = "transcribe"
    /\ sessionStorage' = Stored(calls[c].args, r)
    /\ successes' = Append(successes, Stored(calls[c].args, r))
    /\ calls' = [calls EXCEPT ![c].pc = "returned",
                              ![c].reply = Some(TranscribedMessage(calls[c].args, r))]
    /\ UNCHANGED <<transcriberVars, reportVars>>

\* transcribeAndDiarize rejected with e: the catch block returns the failure text
TranscribeRejected(c, e) ==
    /\ c \in DOMAIN calls
    /\ calls[c].pc = "transcribe"
    /\ calls' = [calls EXCEPT ![c].pc = "returned",
                              ![c].reply = Some(<<"Transcription failed: ">> \o e)]
    /\ UNCHANGED <<transcriberVars, reportVars, sessionStorage, successes>>

\* the argument object of the saveTranscriptionReport call, lines 315-326
SaveArgs(fmts, uploadToS3, resolved) ==
    [transcription |-> sessionStorage.lastTranscription,
     formats |-> fmts,
     context |-> [audioFilePath |-> sessionStorage.lastFilePath,
                  modelChoice |-> sessionStorage.lastModelChoice,
                  speakers |-> sessionStorage.lastSpeakers,
                  usageMetadata |-> sessionStorage.lastUsageMetadata],
     uploads |-> IF uploadToS3 THEN resolved ELSE Undefined]

CallSaveReportUnchecked(fmts, uploadToS3, resolved) ==
    /\ Len(calls) < MaxCalls
    /\ LET call == ToolCall("save_report", "save", NoArgs)
       IN IF Len(fmts) = 0
          THEN calls' = Append(calls, [call EXCEPT !.pc = "returned",
                                                   !.reply = Some(NoFormatsMessage)])
          ELSE calls' = Append(calls, [call EXCEPT !.published =
                                                       Some(SaveArgs(fmts, uploadToS3, resolved))])
    /\ UNCHANGED <<transcriberVars, reportVars, sessionStorage, successes>>

\* save_report is called: the handler returns at one of its two checks, or reads the
\* session storage and runs up to await saveTranscriptionReport
CallSaveReport(fmts, uploadToS3, resolved) ==
    /\ Len(calls) < MaxCalls
    /\ LET call == ToolCall("save_report", "save", NoArgs)
       IN IF sessionStorage.lastTranscription = <<>>
          THEN calls' = Append(calls, [call EXCEPT !.pc = "returned",
                                                   !.reply = Some(NoTranscriptionMessage)])
          ELSE IF Len(fmts) = 0
          THEN calls' = Append(calls, [call EXCEPT !.pc = "returned",
                                                   !.reply = Some(NoFormatsMessage)])
          ELSE calls' = Append(calls, [call EXCEPT !.published =
                                                       Some(SaveArgs(fmts, uploadToS3, resolved))])
    /\ UNCHANGED <<transcriberVars, reportVars, sessionStorage, successes>>

\* saveTranscriptionReport resolved
SaveResolved(c) ==
    /\ c \in DOMAIN calls
    /\ calls[c].pc = "save"
    /\ calls' = [calls EXCEPT ![c].pc = "returned",
                              ![c].reply = Some(<<"Reports saved successfully!", "Formats: ">>
                                                \o [i \in 1..Len(calls[c].published[1].formats) |->
                                                        FormatLabel(calls[c].published[1].formats[i])])]
    /\ UNCHANGED <<transcriberVars, reportVars, sessionStorage, successes>>

\* saveTranscriptionReport rejected with e
SaveRejected(c, e) ==
    /\ c \in DOMAIN calls
    /\ calls[c].pc = "save"
    /\ calls' = [calls EXCEPT ![c].pc = "returned",
                              ![c].reply = Some(<<"Failed to save reports: ">> \o e)]
    /\ UNCHANGED <<transcriberVars, reportVars, sessionStorage, successes>>

\* get_transcription_text is called: the handler has no await
CallGetTranscriptionText ==
    /\ Len(calls) < MaxCalls
    /\ LET call == ToolCall("get_transcription_text", "returned", NoArgs)
       IN IF sessionStorage.lastTranscription = <<>>
          THEN calls' = Append(calls, [call EXCEPT !.reply = Some(NoTranscriptionMessage)])
          ELSE calls' = Append(calls, [call EXCEPT !.reply =
                                                       Some(sessionStorage.lastTranscription)])
    /\ UNCHANGED <<transcriberVars, reportVars, sessionStorage, successes>>

TranscribeAudio ==
    \/ \E args \in TranscribeArgs : CallTranscribeAudio(args)
    \/ \E c \in 1..MaxCalls, validationError \in ValidationErrors :
           ValidateResolved(c, validationError)
    \/ \E c \in 1..MaxCalls, r \in TranscribeResults : TranscribeResolved(c, r)
    \/ \E c \in 1..MaxCalls, e \in TranscribeErrors : TranscribeRejected(c, e)

SaveReport ==
    \/ \E fmts \in SaveFormats, uploadToS3 \in BOOLEAN, resolved \in ResolvedS3Configs :
           CallSaveReport(fmts, uploadToS3, resolved)
    \/ \E c \in 1..MaxCalls : SaveResolved(c)
    \/ \E c \in 1..MaxCalls, e \in SaveErrors : SaveRejected(c, e)

\* the MCP server has been created and no tool has been called
ToolsInit ==
    /\ apiKeySet = TRUE
    /\ ext = ".mp3"
    /\ diskSize = INLINE_UPLOAD_MAX_BYTES
    /\ TranscriberIdle
    /\ ToolsIdle
    /\ PublisherIdle
    /\ RendererIdle

ToolsNext ==
    \/ TranscribeAudio
    \/ SaveReport
    \/ CallGetTranscriptionText

ToolsSpec == ToolsInit /\ [][ToolsNext]_vars

----------------------------------------------------------------------------
(* Properties *)

LastAttemptError == attemptErrors[Len(attemptErrors)]

StagingFailures == {"Failed", "TimedOut", "NoFile", "UploadError", "PollError"}

\* a text with at least one character that is not white space
NonBlank(t) == \E i \in DOMAIN t : t[i] \notin WhiteSpace

\* C1: in one transcribeAndDiarize call the stager is invoked at most once,
\* whatever the stager and the transcription calls answer.
C1_StagerInvokedAtMostOnce == opId <= 1

\* C2: a staging failure is terminal for the call: as soon as a staging has failed,
\* whatever its message, the call has failed, and it has issued no transcription call.
C2_StagingFailureIsTerminal ==
    (stagings # <<>> /\ stagings[Len(stagings)] \in StagingFailures)
        => (pc = "failed" /\ genCalls = 0)

\* C3: a finished staging has timed out if and only if all the polls were made and no
\* file metadata it received, the last poll's included, was ACTIVE or FAILED.
C3_TimedOutIffNeverReadyNorFailed ==
    sPc \in {"Ready", "Failed", "TimedOut"}
        => ((sPc = "TimedOut") <=> (polls >= maxPollAttempts /\ ~sawReady /\ ~sawFailed))

\* C4: an empty-result error on an attempt before the last one is followed by a
\* backoff delay (and so by another attempt).
C4_EmptyResultIsRetried ==
    \A i \in DOMAIN attemptErrors :
        (attemptErrors[i] = EmptyTranscriptionMessage /\ i < maxRetries)
            => Len(delays) >= i

\* C5: a backoff delay follows a failed attempt only if its error is classified
\* retryable; a failed attempt with any other error is the last thing the call does:
\* it has failed, with no delay and no transcription call after that attempt.
C5_RetryOnlyOnRetryable ==
    \A i \in DOMAIN attemptErrors :
        /\ Len(delays) >= i => isRetryableError(attemptErrors[i])
        /\ ~isRetryableError(attemptErrors[i])
              => /\ i = Len(attemptErrors)
                 /\ pc = "failed"
                 /\ attempt = i
                 /\ Len(delays) = i - 1
                 /\ genCalls <= i

C5_Witness ==
    /\ pc = "failed"
    /\ Len(attemptErrors) = 2
    /\ isRetryableError(attemptErrors[1])
    /\ ~isRetryableError(attemptErrors[2])
    /\ genCalls = 2

\* the safety part of C6
C6_Safety ==
    /\ genCalls <= maxRetries
    /\ Len(attemptErrors) <= maxRetries
    /\ Len(attemptErrors) = maxRetries => pc = "failed"
    /\ (pc = "failed" /\ attemptErrors # <<>>)
          => thrown = Some(FailMessage(LastAttemptError))

\* C6: at most maxRetries transcription calls are issued, maxRetries failed attempts
\* end the call, a call that fails after a failed attempt throws the error of the last
\* attempt made, and every call ends.
C6_BoundedAndCarriesLastError == []C6_Safety /\ <>Done

C6_Witness ==
    /\ pc = "failed"
    /\ genCalls = maxRetries
    /\ Len(attemptErrors) = maxRetries
    /\ attemptErrors[1] # attemptErrors[maxRetries]
    /\ attemptErrors[2] # attemptErrors[maxRetries]

\* C7: the i-th backoff delay is retryDelayMs * i, so the delays strictly increase, and
\* a call that succeeds on attempt n + 1 has made exactly n delays.
C7_LinearBackoff ==
    /\ \A i \in DOMAIN delays : delays[i] = retryDelayMs * i
    /\ \A i \in DOMAIN delays : i > 1 => delays[i] > delays[i - 1]
    /\ pc = "returned"
          => /\ result # Undefined
             /\ Len(delays) = attempt - 1
             /\ Len(attemptErrors) = attempt - 1

C7_Witness ==
    /\ pc = "returned"
    /\ attemptErrors = <<RateLimitError, RateLimitError>>
    /\ Len(delays) = 2
    /\ delays[2] > delays[1]
    /\ genCalls = 3

\* C8: a successful result never has a blank transcript, and a response with a
\* non-blank text is returned as it is, with or without usage metadata.
C8_NoBlankSuccess ==
    /\ pc = "returned" => NonBlank(result[1].transcription)
    /\ (lastResponse # Undefined /\ lastResponse[1].text # Undefined
            /\ NonBlank(lastResponse[1].text[1]))
          => /\ pc = "returned"
             /\ result = Some([transcription |-> lastResponse[1].text[1],
                               usageMetadata |-> lastResponse[1].usageMetadata])

C8_Witness ==
    /\ pc = "returned"
    /\ result[1].usageMetadata = Undefined
    /\ \E i \in DOMAIN result[1].transcription : result[1].transcription[i] \in WhiteSpace

\* C9: a staging that ends without having received ACTIVE or FAILED metadata ends in the
\* timeout error, and a call in which a staging timed out has failed with that
\* error without ever issuing a transcription call.
C9_TimeoutFailsWithoutTranscription ==
    /\ (sPc \in {"Ready", "Failed", "TimedOut"} /\ ~sawReady /\ ~sawFailed)
          => sPc = "TimedOut"
    /\ (\E i \in DOMAIN stagings : stagings[i] = "TimedOut")
          => /\ stagings[Len(stagings)] = "TimedOut"
             /\ pc = "failed"
             /\ genCalls = 0
             /\ thrown = Some(FailMessage(TimedOutMessage(file[1])))

C9_Witness ==
    /\ sPc = "TimedOut"
    /\ pc = "failed"
    /\ ~sawReady
    /\ ~sawFailed
    /\ polls = maxPollAttempts

\* the current staging has reached Ready, Failed or TimedOut: it has returned or thrown
\* so, or its loop head has met an ACTIVE or FAILED file or has run out of attempts
StagerTerminal ==
    \/ sPc \in {"Ready", "Failed", "TimedOut"}
    \/ headSaw \in {Some("ACTIVE"), Some("FAILED")}
    \/ sAttempt >= maxPollAttempts

\* C10: once a staging operation is Ready, Failed or TimedOut, that operation makes
\* no further upload, wait or status poll and stays in that state.
C10_TerminalStatesAreFinal ==
    [][(StagerTerminal /\ opId' = opId) => UNCHANGED <<sPc, uploads, waits, polls>>]_vars

C10_Witness ==
    /\ sPc = "Ready"
    /\ polls >= 1
    /\ pc = "returned"

----------------------------------------------------------------------------
(* Properties of the stager and of the strategy *)

\* C11: a staging operation makes exactly one upload and at most maxPollAttempts
\* polls, one wait before each poll; a file reported ACTIVE makes it return the
\* reference, a file reported FAILED makes it fail with the reported reason.
C11_OneUploadBoundedPolls ==
    /\ opId >= 1 => uploads = 1
    /\ polls <= maxPollAttempts
    /\ waits \in {polls, polls + 1}
    /\ (sPc \in {"Ready", "Failed", "TimedOut"} /\ sawReady)
          => (sPc = "Ready" /\ fileUri = Some(file[1].uri))
    /\ (sPc \in {"Ready", "Failed", "TimedOut"} /\ sawFailed)
          => (sPc = "Failed" /\ lastError = Some(ProcessingFailedMessage(file[1])))

\* the state part of C12
C12_Safety ==
    /\ opId >= 1 => uploads = 1
    /\ sPc = "UploadError"
          => /\ polls = 0
             /\ waits = 0
             /\ file = Undefined
             /\ headSaw = Undefined
             /\ stagings[Len(stagings)] = "UploadError"
             /\ LastAttemptError \in UploadErrors

\* C12: an upload that fails with a transport error ends the staging operation with that
\* very error: no file metadata, no wait, no poll and no second upload, then or later.
C12_UploadErrorPropagates ==
    /\ []C12_Safety
    /\ [][(sPc = "UploadError" /\ opId' = opId)
             => UNCHANGED <<sPc, uploads, waits, polls, file>>]_vars

C12_Witness ==
    /\ sPc = "UploadError"
    /\ pc = "delay"
    /\ isRetryableError(LastAttemptError)

\* C13: the strategy is inline exactly for sizes up to INLINE_UPLOAD_MAX_BYTES; an inline
\* call never invokes the stager, a staged call never reads the file for inline audio,
\* and every request of a call carries the audio the call's strategy prescribes.
C13_StrategyBySize ==
    attempt >= 1
        => /\ useInlineUpload <=> (diskSize <= 15 * 1024 * 1024)
           /\ useInlineUpload
                 => /\ opId = 0
                    /\ pc # "staging"
                    /\ \A i \in DOMAIN requests : requests[i][1] = "inlineData"
           /\ ~useInlineUpload
                 => /\ pc # "readFile"
                    /\ \A i \in DOMAIN requests :
                          requests[i][1] = "fileData" /\ fileUri = Some(requests[i][3])

C13_Witness ==
    /\ diskSize = INLINE_UPLOAD_MAX_BYTES
    /\ pc = "returned"
    /\ genCalls = 2
    /\ opId = 0

\* the extensions of MIME_TYPE_MAPPING
SupportedExtensions == {".mp3", ".wav", ".flac", ".m4a", ".ogg"}

\* C14: for a file with an unsupported extension the call does nothing but fail: no
\* attempt, no staging upload, no transcription call, no backoff delay.
C14_UnsupportedFailsAtOnce ==
    ToLowerCase(ext) \notin SupportedExtensions
        => /\ pc \in {"start", "stat", "failed"}
           /\ attempt = 0
           /\ opId = 0
           /\ uploads = 0
           /\ genCalls = 0
           /\ delays = <<>>
           /\ (pc = "failed" /\ apiKeySet) => thrown = Some(UnsupportedMessage(ext))

C14_Witness ==
    /\ ext = ".txt"
    /\ pc = "failed"
    /\ thrown = Some(UnsupportedMessage(ext))

----------------------------------------------------------------------------
(* Properties of saveTranscriptionReport, under PubSpec *)

InLoop == pPc \in {"writeFile", "toBuffer", "pdfStream", "send"}

\* the format whose file localPath is
FormatOf(localPath) == CHOOSE f \in OutputFormats : TargetPath(f) = localPath

HasErrorLog(prefix) ==
    \E k \in DOMAIN logs :
        /\ logs[k].level = "error"
        /\ Len(logs[k].message) >= Len(prefix)
        /\ SubSeq(logs[k].message, 1, Len(prefix)) = prefix

\* C15: a render/write failure of one format does not abort the others: while the loop
\* runs the formats attempted are exactly the requested ones up to the loop position, and
\* when the call returns every requested format has been attempted, in order, each has an
\* outcome, and every format whose write succeeded is on disk and in savedFiles.
C15_SaveFailureDoesNotAbortOthers ==
    /\ InLoop => attempted = SubSeq(formats, 1, pIndex)
    /\ (pPc = "done" /\ Len(formats) > 0)
           => /\ attempted = formats
              /\ Len(saveOutcomes) = Len(formats)
              /\ \A i \in 1..Len(formats) :
                     saveOutcomes[i] = "ok"
                         => /\ TargetPath(formats[i]) \in disk
                            /\ TargetPath(formats[i]) \in Range(savedFiles)

C15_Witness ==
    /\ pPc = "done"
    /\ formats = <<"md", "pdf", "docx">>
    /\ saveOutcomes = <<"ok", "failed", "ok">>
    /\ disk = {TargetPath("md"), TargetPath("docx")}

\* C16: a failed upload of a file leaves the file among the locally written ones (on disk
\* and in savedFiles), and a run in which an upload failed still attempts every requested
\* format and every upload of a written file.
C16_UploadFailureKeepsLocalWrite ==
    /\ \A k \in 1..Len(uploadOutcomes) :
           uploadOutcomes[k] = "failed"
               => /\ uploadCalls[k] \in disk
                  /\ uploadCalls[k] \in Range(savedFiles)
    /\ (pPc = "done" /\ "failed" \in Range(uploadOutcomes))
           => /\ attempted = formats
              /\ Len(uploadOutcomes) = Len(uploadCalls)
              /\ \A i \in 1..Len(formats) :
                     saveOutcomes[i] = "ok" => TargetPath(formats[i]) \in Range(uploadCalls)

C16_Witness ==
    /\ pPc = "done"
    /\ Len(formats) = 3
    /\ saveOutcomes = <<"ok", "ok", "ok">>
    /\ uploadOutcomes = <<"failed", "ok", "ok">>
    /\ Len(savedFiles) = 3

C18_ReturnsWrittenAndUploaded ==
    pPc = "done"
        => pReturn = Some([written |-> savedFiles, uploaded |-> s3UploadedFiles])

\* C19: every format whose render/write failed has an error log naming the save stage and
\* the format, and every file whose upload failed has an error log naming the upload stage
\* and the format.
C19_EveryFailureIsLogged ==
    /\ \A i \in 1..Len(saveOutcomes) :
           saveOutcomes[i] = "failed"
               => HasErrorLog(<<"Failed to save ", ToUpperCase(attempted[i]), " report: ">>)
    /\ \A k \in 1..Len(uploadOutcomes) :
           uploadOutcomes[k] = "failed"
               => HasErrorLog(<<"Failed to upload ", ToUpperCase(FormatOf(uploadCalls[k])),
                                " report to S3: ">>)

C19_Witness ==
    /\ pPc = "done"
    /\ formats = <<"docx", "pdf", "md">>
    /\ saveOutcomes = <<"failed", "ok", "failed">>
    /\ uploadOutcomes = <<"failed">>
    /\ Len(logs) = 5

----------------------------------------------------------------------------
(* Properties of the renderers, under RenderSpec *)

\* C20: for a ReportData with no transcript lines, the transcript section of every
\* rendered document consists of the "No transcript content returned by the model."
\* notice: in the markdown text between the "## Transcript" heading and the closing rule,
\* in the docx section as the one paragraph after the "Transcript" heading, in the PDF as
\* the one text drawn between the "Transcript" heading and the footer.
C20_EmptyTranscriptShowsNotice ==
    (reportData # Undefined /\ Len(reportData[1].transcriptLines) = 0)
        => /\ markdown # Undefined
                  => Includes(markdown[1],
                              <<"## Transcript", "\n", "\n",
                                "_", "No transcript content returned by the model.", "_",
                                "\n", "\n", "---">>)
           /\ docx # Undefined
                  => LET c == docx[1]
                         n == Len(c)
                     IN /\ n >= 2
                        /\ c[n - 1].kind = "paragraph"
                        /\ Len(c[n - 1].runs) = 1
                        /\ c[n - 1].runs[1].text = <<"Transcript">>
                        /\ c[n].kind = "paragraph"
                        /\ Len(c[n].runs) = 1
                        /\ c[n].runs[1].text = <<"No transcript content returned by the model.">>
           /\ pdf # Undefined
                  => LET d == pdf[1]
                     IN \E k \in 1..(Len(d) - 3) :
                            /\ d[k].op = "text"
                            /\ d[k].text = <<"Transcript">>
                            /\ d[k + 1].op = "moveDown"
                            /\ d[k + 2].op = "text"
                            /\ d[k + 2].text = <<"No transcript content returned by the model.">>
                            /\ d[k + 3].op = "moveDown"
                            /\ d[k + 4].op = "divider"
                            /\ k + 5 = Len(d)

C20_Witness ==
    /\ reportData # Undefined
    /\ Len(reportData[1].transcriptLines) = 0
    /\ Len(reportData[1].metadata) = 2
    /\ markdown # Undefined
    /\ docx # Undefined
    /\ pdf # Undefined

\* the position in the docx section of the paragraph of transcript line i: after the
\* title, the subtitle, a rule, the details heading, the table, a rule and the heading
TranscriptParagraph(i) == docx[1][7 + i]

\* C21 (as the specification states it): in the docx section the line
\* "Dr. Smith: Hello there" is a bold run "Dr. Smith:" followed by a plain run
\* " Hello there", and the line "just plain text" is one plain run equal to the line.
C21_SpeakerLabelRuns ==
    (reportData # Undefined /\ docx # Undefined)
        => \A i \in 1..Len(reportData[1].transcriptLines) :
               LET line == reportData[1].transcriptLines[i]
                   runs == TranscriptParagraph(i).runs
               IN /\ line = <<"D", "r", ".", " ", "S", "m", "i", "t", "h", ":", " ",
                              "H", "e", "l", "l", "o", " ", "t", "h", "e", "r", "e">>
                         => /\ Len(runs) = 2
                            /\ runs[1].text = <<"D", "r", ".", " ", "S", "m", "i", "t", "h", ":">>
                            /\ runs[1].bold
                            /\ runs[2].text = <<" ", "H", "e", "l", "l", "o", " ",
                                                "t", "h", "e", "r", "e">>
                            /\ ~runs[2].bold
                  /\ line = <<"j", "u", "s", "t", " ", "p", "l", "a", "i", "n", " ",
                              "t", "e", "x", "t">>
                         => /\ Len(runs) = 1
                            /\ runs[1].text = line
                            /\ ~runs[1].bold

----------------------------------------------------------------------------
(* Further properties of transcribeAndDiarize, under Spec *)

\* the state part of C26: what every transcription request of a staged call carries
C26_StagedReference ==
    /\ \A k \in 1..Len(requests) :
           requests[k][1] = "fileData"
               => /\ ~useInlineUpload
                  /\ fileUri # Undefined
                  /\ requests[k][3] = fileUri[1]
                  /\ stagings # <<>>
                  /\ stagings[Len(stagings)] = "Ready"
    /\ (pc # "start" /\ ~useInlineUpload /\ mimeType # Undefined)
           => \A k \in 1..Len(requests) : requests[k][1] = "fileData"
    /\ fileUri # Undefined => (sPc = "Ready" /\ genCalls >= 1)

\* C26: once the stager has returned a reference, the reference is kept and the stager is
\* not invoked again for the rest of the call; every transcription request of a staged
\* call carries that reference, and none is issued before the stager has returned it.
C26_StagedReferenceIsReused ==
    /\ []C26_StagedReference
    /\ [][fileUri # Undefined => (fileUri' = fileUri /\ opId' = opId /\ stagings' = stagings)]_vars

C26_Witness ==
    /\ pc = "failed"
    /\ fileUri # Undefined
    /\ opId = 1
    /\ genCalls = 3
    /\ Len(delays) = 2
    /\ \A k \in 1..3 : requests[k] = FileDataPart(mimeType[1], fileUri[1])

----------------------------------------------------------------------------
(* Properties of buildReportData and estimateCost, under BuildSpec and CostSpec *)

\* C22: joining the transcriptLines buildReportData produced with newlines and splitting
\* the text again gives as many lines, blank at the same positions; the lines are in fact
\* the same, so building from the joined text gives the same transcriptLines.
C22_BlankLinesRoundTrip ==
    reportData # Undefined
        => LET lines == reportData[1].transcriptLines
               again == transcriptLinesOf(Join(lines))
           IN /\ Len(again) = Len(lines)
              /\ \A i \in 1..Len(lines) : (again[i] = <<>>) <=> (lines[i] = <<>>)
              /\ again = lines

C22_Witness ==
    /\ reportData # Undefined
    /\ transcription = <<" ", "\n", "a">>
    /\ reportData[1].transcriptLines = << <<>>, <<"a">> >>

\* C23: the metadata buildReportData produced starts with Source File, Model, Generated,
\* Speakers in that order, the speakers entry reading "Not provided" when no speakers were
\* given; without usage metadata these four are all, and with usage metadata they are
\* followed by Prompt Tokens, Output Tokens, Total Tokens and Estimated Cost.
C23_MetadataOrder ==
    (reportData # Undefined /\ context # Undefined)
        => LET m == reportData[1].metadata
               labels == [i \in 1..Len(m) |-> m[i].label[1]]
               speakers == context[1].speakers
           IN /\ Len(m) >= 4
              /\ SubSeq(labels, 1, 4) = <<"Source File", "Model", "Generated", "Speakers">>
              /\ (speakers = Undefined \/ speakers = Some(<<>>))
                     => m[4].value = <<"Not provided">>
              /\ context[1].usageMetadata = Undefined => Len(m) = 4
              /\ context[1].usageMetadata # Undefined
                     => labels = <<"Source File", "Model", "Generated", "Speakers",
                                   "Prompt Tokens", "Output Tokens", "Total Tokens",
                                   "Estimated Cost">>

C23_Witness ==
    /\ reportData # Undefined
    /\ context # Undefined
    /\ context[1].speakers = Undefined
    /\ context[1].usageMetadata # Undefined
    /\ Len(reportData[1].metadata) = 8
    /\ reportData[1].metadata[5].value = <<"8", ",", "0", "0", "0">>

\* C24: estimateCost returns nothing when the usage is absent or the model has no pricing
\* entry; otherwise it returns input and output costs that are not negative and a total
\* that is their sum.
C24_CostEstimate ==
    (costEstimate # Undefined /\ context # Undefined)
        => LET estimate == costEstimate[1]
           IN IF context[1].usageMetadata = Undefined
                 \/ context[1].modelChoice \notin {"gemini-2.5-pro", "gemini-flash-latest"}
              THEN estimate = Undefined
              ELSE /\ estimate # Undefined
                   /\ estimate[1].inputCost >= 0
                   /\ estimate[1].outputCost >= 0
                   /\ estimate[1].totalCost = estimate[1].inputCost + estimate[1].outputCost

C24_Witness ==
    /\ costEstimate # Undefined
    /\ costEstimate[1] # Undefined
    /\ costEstimate[1][1].inputCost > 0
    /\ costEstimate[1][1].outputCost > 0
    /\ costEstimate[1][1].totalCost = 1125000000

\* C28: the transcriptLines buildReportData produced has at least one element, whatever
\* the transcript, and no document rendered from it carries the "No transcript content
\* returned by the model." notice.
C28_NoticeNeverTaken ==
    (context # Undefined /\ reportData # Undefined)
        => /\ Len(reportData[1].transcriptLines) >= 1
           /\ markdown # Undefined
                  => ~Includes(markdown[1], <<"No transcript content returned by the model.">>)
           /\ docx # Undefined
                  => \A k \in 1..Len(docx[1]) :
                         \A r \in 1..Len(docx[1][k].runs) :
                             docx[1][k].runs[r].text
                                 # <<"No transcript content returned by the model.">>
           /\ pdf # Undefined
                  => \A k \in 1..Len(pdf[1]) :
                         pdf[1][k].text # <<"No transcript content returned by the model.">>

C28_Witness ==
    /\ transcription = <<>>
    /\ context # Undefined
    /\ reportData # Undefined
    /\ reportData[1].transcriptLines = << <<>> >>
    /\ markdown # Undefined
    /\ docx # Undefined
    /\ pdf # Undefined

----------------------------------------------------------------------------
(* Properties of the report data inside saveTranscriptionReport, under PubSpec *)

\* what buildReportData returns for the arguments of the call
BuiltOnce == buildReportData(transcription, context[1])

\* the state part of C27: past the empty check the report data is the one value built from
\* the arguments, and the document of every format started so far was rendered from it
C27_RenderedFromTheBuild ==
    (pPc \notin {"idle", "start"} /\ formats # <<>>)
        => /\ reportData = Some(BuiltOnce)
           /\ markdown = IF "md" \in Range(attempted)
                         THEN Some(buildMarkdownReport(BuiltOnce)) ELSE Undefined
           /\ docx = IF "docx" \in Range(attempted)
                     THEN Some(writeDocxReport(BuiltOnce)) ELSE Undefined
           /\ pdf = IF "pdf" \in Range(attempted)
                    THEN Some(writePdfReport(BuiltOnce)) ELSE Undefined

\* C27: in one saveTranscriptionReport call the ReportData is built once, and once built no
\* step changes it (no renderer changes its title, subtitle, metadata or transcriptLines);
\* every requested renderer that runs is passed that same value, so what a format renders
\* depends neither on its place in the format list nor on an earlier renderer's failure.
C27_ReportDataBuiltOnce ==
    /\ []C27_RenderedFromTheBuild
    /\ [][reportData # Undefined => reportData' = reportData]_vars

C27_Witness ==
    /\ pPc = "done"
    /\ formats = <<"pdf", "docx", "md">>
    /\ saveOutcomes = <<"failed", "failed", "ok">>
    /\ transcription = <<"a", "\n", "a">>
    /\ reportData # Undefined
    /\ Len(reportData[1].metadata) = 8
    /\ markdown = Some(buildMarkdownReport(reportData[1]))

\* C30: saveTranscriptionReport called with an empty format list has no effect: it never
\* asks for the destination directory, builds no report data, renders nothing, writes no
\* file, uploads nothing and logs nothing.
C30_EmptyFormatsNoEffect ==
    formats = <<>>
        => /\ pPc \in {"idle", "start", "done"}
           /\ reportData = Undefined
           /\ markdown = Undefined /\ docx = Undefined /\ pdf = Undefined
           /\ attempted = <<>>
           /\ disk = {}
           /\ savedFiles = <<>>
           /\ uploadCalls = <<>>
           /\ s3UploadedFiles = <<>>
           /\ logs = <<>>
           /\ pThrown = Undefined

C30_Witness ==
    /\ formats = <<>>
    /\ pPc = "done"
    /\ s3Config # Undefined
    /\ transcription # <<>>

----------------------------------------------------------------------------
(* Properties of the tools and their session storage, under ToolsSpec *)

\* C25: a save_report or get_transcription_text call made when no transcribe_audio call
\* has succeeded returns the "No transcription available" text, and such a save_report
\* never reaches saveTranscriptionReport (no directory, no file, no upload); a
\* get_transcription_text call made after a success returns the transcript of the most
\* recent successful transcribe_audio.
C25_LastTranscriptionOnly ==
    \A c \in DOMAIN calls :
        /\ (calls[c].tool \in {"save_report", "get_transcription_text"} /\ calls[c].after = 0)
               => /\ calls[c].pc = "returned"
                  /\ calls[c].reply = Some(NoTranscriptionMessage)
                  /\ calls[c].published = Undefined
        /\ (calls[c].tool = "get_transcription_text" /\ calls[c].after > 0)
               => calls[c].reply = Some(successes[calls[c].after].lastTranscription)

C25_Witness ==
    /\ Len(calls) = 3
    /\ calls[1].tool = "save_report"
    /\ calls[1].reply = Some(NoTranscriptionMessage)
    /\ calls[2].tool = "transcribe_audio"
    /\ calls[3].tool = "get_transcription_text"
    /\ calls[3].reply = Some(<<" ", "a", "\n">>)

\* the state part of C29: the five fields are those of the latest successful
\* transcribe_audio (or the initial ones), and what a save_report passed to
\* saveTranscriptionReport is the five fields of one successful transcribe_audio
C29_OneSuccessfulCall ==
    /\ sessionStorage = IF successes = <<>> THEN EmptySession ELSE successes[Len(successes)]
    /\ \A c \in DOMAIN calls :
           calls[c].published # Undefined
               => /\ calls[c].after > 0
                  /\ LET from == successes[calls[c].after]
                         passed == calls[c].published[1]
                     IN /\ passed.transcription = from.lastTranscription
                        /\ passed.context = [audioFilePath |-> from.lastFilePath,
                                             modelChoice |-> from.lastModelChoice,
                                             speakers |-> from.lastSpeakers,
                                             usageMetadata |-> from.lastUsageMetadata]

\* C29: a transcribe_audio call that fails validation or transcription leaves the five
\* fields of the session storage unchanged, and under every interleaving of tool calls the
\* five fields, and the snapshot save_report passes to the publisher, all come from one
\* and the same successful transcribe_audio call.
C29_AtomicSessionStorage ==
    /\ []C29_OneSuccessfulCall
    /\ [][\A c \in DOMAIN calls :
              (/\ calls[c].tool = "transcribe_audio"
               /\ calls[c].pc # "returned"
               /\ calls'[c].pc = "returned"
               /\ Head(calls'[c].reply[1]) \in {"Validation error: ", "Transcription failed: "})
                  => sessionStorage' = sessionStorage]_vars

C29_Witness ==
    /\ Len(successes) = 2
    /\ successes[1].lastFilePath # successes[2].lastFilePath
    /\ successes[1].lastTranscription # successes[2].lastTranscription
    /\ \E c \in DOMAIN calls :
           /\ calls[c].tool = "save_report"
           /\ calls[c].pc = "save"
           /\ calls[c].after = 1
           /\ calls[c].published # Undefined
           /\ calls[c].published[1].transcription = successes[1].lastTranscription

====
